------------------------------ MODULE Spec2Model ------------------------------
(***************************************************************************)
(* PVEScriptsLocal Customiser: the import registry and its orchestrators.  *)
(*                                                                         *)
(* Three orchestrators are modelled, each from its own source:             *)
(*   - the tRPC router        (src/api/custom-import-router.ts)            *)
(*   - the Bash CLI           (src/scripts/pvescripts-import.sh)           *)
(*   - the web dashboard      (src/web-dashboard/.../route.ts and the      *)
(*                             integration library src/unnamed/part_002)   *)
(* The tRPC router and the CLI work on the same files                      *)
(* (data/custom-imports.json, json/custom/, custom-ct/); the dashboard     *)
(* keeps its own registry (json/.pvescripts-imports.json), manifests       *)
(* (json/<slug>.json) and scripts (install/<slug>-install.sh).             *)
(*                                                                         *)
(* The two sets of files are disjoint, so a behaviour follows one of them: *)
(* app = "router" for the requests of the tRPC router and the CLI,         *)
(* app = "dashboard" for those of the web dashboard.                       *)
(*                                                                         *)
(* Text is modelled by TLA+ strings, one character per position; file     *)
(* contents are the values the code writes.  A handler is one action:      *)
(* requests are served one at a time in Spec.                              *)
(***************************************************************************)
EXTENDS Integers, Sequences, FiniteSets, TLC

VARIABLES
    configFile,   \* data/custom-imports.json            (tRPC router, CLI)
    customJson,   \* json/custom/<slug>.json             (tRPC router, CLI)
    customCt,     \* custom-ct/<slug>.sh                 (tRPC router, CLI)
    mainJson,     \* json/custom-<slug>.json             (tRPC router, CLI)
    importsFile,  \* json/.pvescripts-imports.json       (dashboard)
    jsonDir,      \* json/<slug>.json                    (dashboard)
    installDir,   \* install/<slug>-install.sh           (dashboard)
    credentialsFile, \* config/.credentials.enc          (dashboard)
    app,          \* the installation that serves the requests of this behaviour
    now,          \* the wall clock read by new Date() / date: it advances with
                  \* every request that writes
    last,         \* the request served last and what it returned
    calls,        \* the requests in flight: what each has read and has yet to write
    removed       \* slugs removed through the tRPC router and not imported since

trpcFiles == <<configFile, customJson, customCt, mainJson>>
dashFiles == <<importsFile, jsonDir, installDir, credentialsFile>>
vars == <<configFile, customJson, customCt, mainJson,
          importsFile, jsonDir, installDir, credentialsFile, app, now, last, calls,
          removed>>

-----------------------------------------------------------------------------
(* Bounds of the model.                                                    *)

\* requests arrive while the clock is at most MaxClock; the clock advances
\* with every request that reaches the file system to write
MaxClock == 2

-----------------------------------------------------------------------------
(* Strings.                                                                *)

Min(a, b) == IF a < b THEN a ELSE b

CharAt(s, i) == SubSeq(s, i, i)

\* String.prototype.slice(0, n) and String.prototype.substring(0, n)
Slice(s, n) == SubSeq(s, 1, Min(n, Len(s)))

IsPrefix(p, s) == Len(p) <= Len(s) /\ SubSeq(s, 1, Len(p)) = p

\* s.includes(sub)
Contains(s, sub) ==
    \E i \in 1..(Len(s) - Len(sub) + 1) : SubSeq(s, i, i + Len(sub) - 1) = sub

UpperChars == "ABCDEFGHIJKLMNOPQRSTUVWXYZ"
LowerChars == "abcdefghijklmnopqrstuvwxyz"
DigitChars == "0123456789"

CharsOf(s) == {CharAt(s, i) : i \in 1..Len(s)}

UpperSet == CharsOf(UpperChars)
LowerSet == CharsOf(LowerChars)
DigitSet == CharsOf(DigitChars)

IsLowerAlnum(c) == c \in LowerSet \/ c \in DigitSet

\* the characters matched by \s that a repository or display name can hold
IsSpace(c) == c = " " \/ c = "\t"

LowerOf == [c \in UpperSet |->
               CharAt(LowerChars, CHOOSE i \in 1..Len(UpperChars) : CharAt(UpperChars, i) = c)]

LowerChar(c) == IF c \in UpperSet THEN LowerOf[c] ELSE c

RECURSIVE toLowerCase(_)
toLowerCase(s) ==
    IF s = "" THEN "" ELSE LowerChar(CharAt(s, 1)) \o toLowerCase(SubSeq(s, 2, Len(s)))

\* replace(/\s+/g, '-'): every maximal run of white space becomes one dash
RECURSIVE ReplaceSpaceRuns(_)
ReplaceSpaceRuns(s) ==
    IF s = "" THEN ""
    ELSE LET c == CharAt(s, 1)
             rest == SubSeq(s, 2, Len(s))
         IN IF IsSpace(c)
            THEN IF rest # "" /\ IsSpace(CharAt(rest, 1))
                 THEN ReplaceSpaceRuns(rest)
                 ELSE "-" \o ReplaceSpaceRuns(rest)
            ELSE c \o ReplaceSpaceRuns(rest)

\* replace(/[^a-z0-9-]/g, '')
RECURSIVE StripNonSlugChars(_)
StripNonSlugChars(s) ==
    IF s = "" THEN ""
    ELSE LET c == CharAt(s, 1)
             rest == SubSeq(s, 2, Len(s))
         IN IF IsLowerAlnum(c) \/ c = "-"
            THEN c \o StripNonSlugChars(rest)
            ELSE StripNonSlugChars(rest)

\* generateManifest: const slug = repo.toLowerCase().replace(...).replace(...)
repoSlug(repo) == StripNonSlugChars(ReplaceSpaceRuns(toLowerCase(repo)))

\* replace(/[^a-z0-9]+/g, '-'): every maximal run of other characters becomes one dash
RECURSIVE ReplaceNonAlnumRuns(_)
ReplaceNonAlnumRuns(s) ==
    IF s = "" THEN ""
    ELSE LET c == CharAt(s, 1)
             rest == SubSeq(s, 2, Len(s))
         IN IF IsLowerAlnum(c)
            THEN c \o ReplaceNonAlnumRuns(rest)
            ELSE IF rest # "" /\ ~IsLowerAlnum(CharAt(rest, 1))
                 THEN ReplaceNonAlnumRuns(rest)
                 ELSE "-" \o ReplaceNonAlnumRuns(rest)

\* replace(/^-|-$/g, ''): one leading dash and one trailing dash are removed
TrimDash(s) ==
    LET a == IF s # "" /\ CharAt(s, 1) = "-" THEN SubSeq(s, 2, Len(s)) ELSE s
    IN  IF a # "" /\ CharAt(a, Len(a)) = "-" THEN SubSeq(a, 1, Len(a) - 1) ELSE a

SlugMaxLen == 50

\* the dashboard library's slugify
slugify(name) == Slice(TrimDash(ReplaceNonAlnumRuns(toLowerCase(name))), SlugMaxLen)

\* the CLI: tr '[:upper:]' '[:lower:]' | tr ' ' '-' | tr -cd '[:alnum:]-'
RECURSIVE cliSlug(_)
cliSlug(s) ==
    IF s = "" THEN ""
    ELSE LET c0 == LowerChar(CharAt(s, 1))
             c == IF c0 = " " THEN "-" ELSE c0
             rest == SubSeq(s, 2, Len(s))
         IN IF IsLowerAlnum(c) \/ c \in UpperSet \/ c = "-"
            THEN c \o cliSlug(rest)
            ELSE cliSlug(rest)

-----------------------------------------------------------------------------
(* URL parsing (tRPC router).                                              *)

\* s[i..] starts with sub
StartsWithAt(s, sub, i) ==
    i >= 1 /\ i + Len(sub) - 1 <= Len(s) /\ SubSeq(s, i, i + Len(sub) - 1) = sub

\* index of the last character of the maximal run of characters of chars
\* that starts at i (i - 1 when s[i] is not one of them)
RECURSIVE RunEnd(_, _, _)
RunEnd(s, i, chars) ==
    IF i <= Len(s) /\ CharAt(s, i) \in chars THEN RunEnd(s, i + 1, chars) ELSE i - 1

\* the same for the maximal run of characters that are not in stops
RECURSIVE RunEndBefore(_, _, _)
RunEndBefore(s, i, stops) ==
    IF i <= Len(s) /\ CharAt(s, i) \notin stops THEN RunEndBefore(s, i + 1, stops) ELSE i - 1

\* \w, [\w-], [\w.-] and [\w\/-]
WordChars == LowerSet \cup UpperSet \cup DigitSet \cup {"_"}
OwnerChars == WordChars \cup {"-"}
RepoChars == WordChars \cup {".", "-"}
TreeChars == WordChars \cup {"/", "-"}

\* what . does not match
LineEnds == {"\n", "\r"}

\* GitHubUrlSchema: /^https?:\/\/github\.com\/[\w-]+\/[\w.-]+(\/tree\/[\w\/-]+)?$/
GitHubUrlSchema(url) ==
    \E scheme \in {"https://github.com/", "http://github.com/"} :
        /\ StartsWithAt(url, scheme, 1)
        /\ LET a == Len(scheme) + 1
               ownerEnd == RunEnd(url, a, OwnerChars)
               b == ownerEnd + 2
               repoEnd == RunEnd(url, b, RepoChars)
           IN  /\ ownerEnd >= a
               /\ StartsWithAt(url, "/", ownerEnd + 1)
               /\ repoEnd >= b
               /\ \/ repoEnd = Len(url)
                  \/ /\ StartsWithAt(url, "/tree/", repoEnd + 1)
                     /\ repoEnd + 7 <= Len(url)
                     /\ RunEnd(url, repoEnd + 7, TreeChars) = Len(url)

\* replace(/\.git$/, '')
StripGitSuffix(repo) ==
    IF Len(repo) >= 4 /\ SubSeq(repo, Len(repo) - 3, Len(repo)) = ".git"
    THEN SubSeq(repo, 1, Len(repo) - 4)
    ELSE repo

\* the regular expression of parseGitHubUrl tried at position p:
\* /github\.com\/([^/]+)\/([^/]+)(?:\/tree\/(.+))?/
GitHubUrlMatchAt(url, p) ==
    LET a == p + Len("github.com/")
        ownerEnd == RunEndBefore(url, a, {"/"})
        b == ownerEnd + 2
        repoEnd == RunEndBefore(url, b, {"/"})
        branchEnd == RunEndBefore(url, repoEnd + 7, LineEnds)
        hasTree == StartsWithAt(url, "/tree/", repoEnd + 1) /\ branchEnd >= repoEnd + 7
    IN  IF /\ StartsWithAt(url, "github.com/", p)
           /\ ownerEnd >= a
           /\ StartsWithAt(url, "/", ownerEnd + 1)
           /\ repoEnd >= b
        THEN [ok |-> TRUE,
              owner |-> SubSeq(url, a, ownerEnd),
              repo |-> SubSeq(url, b, repoEnd),
              tree |-> IF hasTree THEN SubSeq(url, repoEnd + 7, branchEnd) ELSE ""]
        ELSE [ok |-> FALSE, owner |-> "", repo |-> "", tree |-> ""]

\* parseGitHubUrl of the tRPC router; ok = FALSE stands for the BAD_REQUEST error
parseGitHubUrl(url) ==
    LET starts == {p \in 1..Len(url) :
                      StartsWithAt(url, "github.com/", p) /\ GitHubUrlMatchAt(url, p).ok}
    IN  IF starts = {}
        THEN [ok |-> FALSE, owner |-> "", repo |-> "", branch |-> ""]
        ELSE LET match == GitHubUrlMatchAt(url, CHOOSE p \in starts : \A q \in starts : p <= q)
             IN  [ok |-> TRUE,
                  owner |-> match.owner,
                  repo |-> StripGitSuffix(match.repo),
                  branch |-> IF match.tree # "" THEN match.tree ELSE "main"]


\* leftmost position at which sub occurs in s at or after i, 0 when there is none
RECURSIVE IndexOfFrom(_, _, _)
IndexOfFrom(s, sub, i) ==
    IF i + Len(sub) - 1 > Len(s) THEN 0
    ELSE IF StartsWithAt(s, sub, i) THEN i
    ELSE IndexOfFrom(s, sub, i + 1)

\* String.prototype.replace(sub, '') with a string pattern: the first
\* occurrence of sub is removed, wherever it stands
RemoveFirst(s, sub) ==
    LET i == IndexOfFrom(s, sub, 1)
    IN  IF i = 0 THEN s
        ELSE SubSeq(s, 1, i - 1) \o SubSeq(s, i + Len(sub), Len(s))

-----------------------------------------------------------------------------
(* URL parsing (web dashboard).                                            *)

\* (?:\/tree\/([^/]+))?(?:\/)?$ tried at position j: whether it matches, and
\* the branch it captures ("" when the group takes no part)
DashboardTailAt(url, j) ==
    LET branchEnd == RunEndBefore(url, j + 6, {"/"})
    IN  IF /\ StartsWithAt(url, "/tree/", j)
           /\ branchEnd >= j + 6
           /\ \/ branchEnd = Len(url)
              \/ branchEnd + 1 = Len(url) /\ CharAt(url, Len(url)) = "/"
        THEN [ok |-> TRUE, tree |-> SubSeq(url, j + 6, branchEnd)]
        ELSE IF j = Len(url) + 1 \/ (j = Len(url) /\ CharAt(url, j) = "/")
        THEN [ok |-> TRUE, tree |-> ""]
        ELSE [ok |-> FALSE, tree |-> ""]

\* (?:\.git)?(?:\/tree\/([^/]+))?(?:\/)?$ tried at position i
DashboardRestAt(url, i) ==
    IF StartsWithAt(url, ".git", i) /\ DashboardTailAt(url, i + 4).ok
    THEN DashboardTailAt(url, i + 4)
    ELSE DashboardTailAt(url, i)

\* the first pattern of the dashboard's parseGitHubUrl tried at position p:
\* /github\.com\/([^/]+)\/([^/]+?)(?:\.git)?(?:\/tree\/([^/]+))?(?:\/)?$/
\* The lazy group takes the shortest repository name the rest can follow.
DashboardMatchAt(url, p) ==
    LET a == p + Len("github.com/")
        ownerEnd == RunEndBefore(url, a, {"/"})
        b == ownerEnd + 2
        repoMax == RunEndBefore(url, b, {"/"})
        ends == {r \in b..repoMax : DashboardRestAt(url, r + 1).ok}
    IN  IF /\ StartsWithAt(url, "github.com/", p)
           /\ ownerEnd >= a
           /\ StartsWithAt(url, "/", ownerEnd + 1)
           /\ ends # {}
        THEN LET repoEnd == CHOOSE r \in ends : \A q \in ends : r <= q
             IN  [ok |-> TRUE,
                  owner |-> SubSeq(url, a, ownerEnd),
                  repo |-> SubSeq(url, b, repoEnd),
                  tree |-> DashboardRestAt(url, repoEnd + 1).tree]
        ELSE [ok |-> FALSE, owner |-> "", repo |-> "", tree |-> ""]

\* parseGitHubUrl of the dashboard's import route; ok = FALSE stands for null.
\* The second pattern, /github\.com\/([^/]+)\/([^/]+)/, is the one of the
\* tRPC router without its branch group.
dashboardParseGitHubUrl(url) ==
    LET first == {p \in 1..Len(url) : DashboardMatchAt(url, p).ok}
        second == {p \in 1..Len(url) : GitHubUrlMatchAt(url, p).ok}
        match == IF first # {}
                 THEN DashboardMatchAt(url, CHOOSE p \in first : \A q \in first : p <= q)
                 ELSE LET m == GitHubUrlMatchAt(url, CHOOSE p \in second : \A q \in second : p <= q)
                      IN  [m EXCEPT !.tree = ""]
    IN  IF first = {} /\ second = {}
        THEN [ok |-> FALSE, owner |-> "", repo |-> "", branch |-> ""]
        ELSE [ok |-> TRUE,
              owner |-> match.owner,
              repo |-> RemoveFirst(match.repo, ".git"),
              branch |-> IF match.tree # "" THEN match.tree ELSE "main"]

\* importRecord.source.match(/github\.com\/([^/]+)\/([^/]+)/) of the update route
sourceMatch(source) ==
    LET starts == {p \in 1..Len(source) : GitHubUrlMatchAt(source, p).ok}
    IN  IF starts = {}
        THEN [ok |-> FALSE, owner |-> "", repo |-> ""]
        ELSE LET m == GitHubUrlMatchAt(source, CHOOSE p \in starts : \A q \in starts : p <= q)
             IN  [ok |-> TRUE, owner |-> m.owner, repo |-> m.repo]

-----------------------------------------------------------------------------
(* URL parsing (CLI).                                                      *)

\* github\.com[:/]([^/]+)/([^/]+) tried at position p
CliMatchAt(url, p) ==
    LET a == p + Len("github.com/")
        ownerEnd == RunEndBefore(url, a, {"/"})
        b == ownerEnd + 2
        repoEnd == RunEndBefore(url, b, {"/"})
    IN  IF /\ \/ StartsWithAt(url, "github.com/", p)
              \/ StartsWithAt(url, "github.com:", p)
           /\ ownerEnd >= a
           /\ StartsWithAt(url, "/", ownerEnd + 1)
           /\ repoEnd >= b
        THEN [ok |-> TRUE, owner |-> SubSeq(url, a, ownerEnd), repo |-> SubSeq(url, b, repoEnd)]
        ELSE [ok |-> FALSE, owner |-> "", repo |-> ""]

\* /tree/([^/]+): the branch after the first "/tree/" that one follows
RECURSIVE CliTreeFrom(_, _)
CliTreeFrom(url, i) ==
    LET j == IndexOfFrom(url, "/tree/", i)
        branchEnd == RunEndBefore(url, j + 6, {"/"})
    IN  IF j = 0 THEN ""
        ELSE IF branchEnd >= j + 6 THEN SubSeq(url, j + 6, branchEnd)
        ELSE CliTreeFrom(url, j + 1)

\* parse_github_url; ok = FALSE stands for "Invalid GitHub URL" and exit 1
parse_github_url(url) ==
    LET starts == {p \in 1..Len(url) : CliMatchAt(url, p).ok}
    IN  IF starts = {}
        THEN [ok |-> FALSE, owner |-> "", repo |-> "", branch |-> ""]
        ELSE LET m == CliMatchAt(url, CHOOSE p \in starts : \A q \in starts : p <= q)
                 tree == CliTreeFrom(url, 1)
             IN  [ok |-> TRUE,
                  owner |-> m.owner,
                  repo |-> StripGitSuffix(m.repo),
                  branch |-> IF tree # "" THEN tree ELSE "main"]
-----------------------------------------------------------------------------
(* Files.  A directory is a function from the names of the files it holds  *)
(* to their contents.                                                      *)

Put(dir, name, content) ==
    [n \in DOMAIN dir \cup {name} |-> IF n = name THEN content ELSE dir[n]]

\* fs.unlink / rm -f: the file is gone afterwards, a missing file is no error
Unlink(dir, name) == [n \in DOMAIN dir \ {name} |-> dir[n]]

EmptyDir == [n \in {} |-> 0]

\* A request runs its steps in order.  fault.idx is the step at which the
\* file system refuses (NoFaultIdx: no step does); at a refused write the file
\* is either untouched (the open failed) or left truncated (the open
\* succeeded, the data did not reach the file): fault.partial.  A truncated
\* file holds the beginning of the data, or nothing at all: fault.empty,
\* told apart where a reader tells them apart (jq reads no value from an
\* empty file and fails on a truncated document).
\* the steps of import and update, in program order
StepMkdir == 1
StepManifest == 2
StepScript == 3
StepChmod == 4
StepCopy == 5
StepRegistry == 6

NoFaultIdx == StepRegistry + 1
NoFault == [idx |-> NoFaultIdx, partial |-> FALSE, empty |-> FALSE]

\* the refusals a request can meet
Faults(plainSteps, writeSteps, jqSteps) ==
    {NoFault}
      \cup {[idx |-> i, partial |-> FALSE, empty |-> FALSE] : i \in plainSteps \cup writeSteps}
      \cup {[idx |-> i, partial |-> TRUE, empty |-> FALSE] : i \in writeSteps}
      \cup {[idx |-> i, partial |-> TRUE, empty |-> TRUE] : i \in jqSteps}

\* fs.writeFile(path, content) as step i of a request
WriteFile(dir, name, content, truncated, i, fault) ==
    IF fault.idx > i THEN Put(dir, name, content)
    ELSE IF fault.idx = i /\ fault.partial THEN Put(dir, name, truncated)
    ELSE dir

\* what JSON.parse throws on
CorruptJson == [valid |-> FALSE]

Mode755 == 493
Mode644 == 420

\* content and permission bits of a script file; writing an existing file
\* keeps its mode, a new file gets newMode
ScriptFile(dir, name, text, newMode) ==
    [text |-> text, mode |-> IF name \in DOMAIN dir THEN dir[name].mode ELSE newMode]

\* fs.chmod(path, mode)
Chmod(dir, name, mode) ==
    IF name \in DOMAIN dir THEN [dir EXCEPT ![name].mode = mode] ELSE dir

-----------------------------------------------------------------------------
(* GitHub as the handlers see it: every request meets a repository state   *)
(* gh chosen by the environment.                                           *)
(*   gh.status         status of GET /repos/<owner>/<repo>                 *)
(*   gh.owner, gh.name the repository's owner and name as GitHub reports   *)
(*                     them (html_url and clone_url are built from them)   *)
(*   gh.description    its description ("" when it has none)               *)
(*   gh.defaultBranch  the branch a request without ?ref= is answered for  *)
(*   gh.tree[b]        names of the files in the root of branch b          *)
(*   gh.probes[i]      what probing manifest location i yields             *)

Branches == {"main", "dev"}

\* a request without ?ref=
NoRef == ""

\* GET /repos/<owner>/<repo>/contents?ref=<ref>
Contents(gh, ref) ==
    IF gh.status # 200 THEN [ok |-> FALSE, files |-> {}]
    ELSE IF ref = NoRef THEN [ok |-> TRUE, files |-> gh.tree[gh.defaultBranch]]
    ELSE IF ref \in DOMAIN gh.tree THEN [ok |-> TRUE, files |-> gh.tree[ref]]
    ELSE [ok |-> FALSE, files |-> {}]

locations ==
    << "pvescripts.json", ".pvescripts/manifest.json",
       "deploy/pvescripts.json", ".claude/pvescripts.json" >>

\* outcomes of probing one location: the contents call fails or the file is
\* missing ("missing"), the download fails ("nodownload"), the body is not
\* JSON ("badjson"), or a manifest is fetched ("found")
ProbeMissing == [kind |-> "missing", manifest |-> CorruptJson]
ProbeError == [kind |-> "error", manifest |-> CorruptJson]
ProbeNoDownload == [kind |-> "nodownload", manifest |-> CorruptJson]
ProbeBadJson == [kind |-> "badjson", manifest |-> CorruptJson]
ProbeFound(m) == [kind |-> "found", manifest |-> m]

\* GET /repos/<owner>/<repo>/contents/<locations[i]>?ref=<branch>, then the
\* download: a repository that does not answer has no fetchable file
Probe(gh, i) == IF gh.status # 200 THEN ProbeError ELSE gh.probes[i]

\* repoInfo.html_url and repoInfo.clone_url
html_url(gh) == "https://github.com/" \o gh.owner \o "/" \o gh.name
clone_url(gh) == html_url(gh) \o ".git"

-----------------------------------------------------------------------------
(* Manifest resolution and generation (tRPC router).                       *)

\* detectProjectType of the tRPC router
detectProjectType(gh, branch) ==
    LET contents == Contents(gh, branch)
        files == contents.files
    IN  IF ~contents.ok THEN "generic"
        ELSE IF "package.json" \in files THEN "nodejs"
        ELSE IF "requirements.txt" \in files \/ "pyproject.toml" \in files THEN "python"
        ELSE IF "Dockerfile" \in files \/ "docker-compose.yml" \in files THEN "docker"
        ELSE IF "go.mod" \in files THEN "golang"
        ELSE IF "Cargo.toml" \in files THEN "rust"
        ELSE "generic"

\* a probe that gives up at the first location whose contents call or
\* download fails
RECURSIVE checkFromUntilError(_, _)
checkFromUntilError(gh, i) ==
    IF i > Len(locations) \/ Probe(gh, i).kind \in {"error", "nodownload"}
    THEN [found |-> FALSE, manifest |-> CorruptJson]
    ELSE IF Probe(gh, i).kind = "found"
         THEN [found |-> TRUE, manifest |-> Probe(gh, i).manifest]
         ELSE checkFromUntilError(gh, i + 1)

\* checkForManifest: the manifest of the first location whose contents call,
\* download and JSON parse all succeed; found = FALSE stands for null
RECURSIVE checkFrom(_, _)
checkFrom(gh, i) ==
    IF i > Len(locations) THEN [found |-> FALSE, manifest |-> CorruptJson]
    ELSE IF Probe(gh, i).kind = "found"
         THEN [found |-> TRUE, manifest |-> Probe(gh, i).manifest]
         ELSE checkFrom(gh, i + 1)

checkForManifest(gh) == checkFrom(gh, 1)

defaultResources(projectType) ==
    CASE projectType = "nodejs" -> [cpu |-> 1, ram |-> 1024, hdd |-> 8]
      [] projectType = "python" -> [cpu |-> 1, ram |-> 1024, hdd |-> 4]
      [] projectType = "docker" -> [cpu |-> 2, ram |-> 2048, hdd |-> 16]
      [] projectType = "golang" -> [cpu |-> 1, ram |-> 1024, hdd |-> 4]
      [] projectType = "rust" -> [cpu |-> 2, ram |-> 2048, hdd |-> 8]
      [] OTHER -> [cpu |-> 1, ram |-> 512, hdd |-> 4]

\* a || b on strings and on numbers
OrStr(a, b) == IF a # "" THEN a ELSE b
OrNum(a, b) == IF a # 0 THEN a ELSE b

\* an absent customOptions: absent strings are "", absent numbers 0
NoResources == [given |-> FALSE, cpu |-> 0, ram |-> 0, hdd |-> 0, os |-> "", version |-> ""]
NoCustom == [name |-> "", description |-> "", resources |-> NoResources]

NoPort == 0

\* generateManifest, once the repository call has answered 2xx
generateManifest(gh, owner, repo, branch, customOptions) ==
    LET projectType == detectProjectType(gh, branch)
        slug == repoSlug(repo)
        baseResources == defaultResources(projectType)
    IN  [valid |-> TRUE,
         name |-> OrStr(customOptions.name, repo),
         slug |-> slug,
         categories |-> <<14>>,
         interface_port |-> IF projectType = "nodejs" THEN 3000
                            ELSE IF projectType = "python" THEN 8000 ELSE NoPort,
         description |-> OrStr(customOptions.description,
                               OrStr(gh.description, "Custom imported script")),
         source |-> [type |-> "github", owner |-> owner, repo |-> repo,
                     branch |-> branch, project_type |-> projectType],
         resources |-> [cpu |-> OrNum(customOptions.resources.cpu, baseResources.cpu),
                        ram |-> OrNum(customOptions.resources.ram, baseResources.ram),
                        hdd |-> OrNum(customOptions.resources.hdd, baseResources.hdd),
                        os |-> OrStr(customOptions.resources.os, "debian"),
                        version |-> OrStr(customOptions.resources.version, "13")]]

\* { ...manifest.install_methods[0].resources, ...input.customResources }
mergeResources(resources, custom) ==
    [cpu |-> OrNum(custom.cpu, resources.cpu),
     ram |-> OrNum(custom.ram, resources.ram),
     hdd |-> OrNum(custom.hdd, resources.hdd),
     os |-> OrStr(custom.os, resources.os),
     version |-> OrStr(custom.version, resources.version)]

\* lines 441-456 of import: the fetched manifest, with customResources merged
\* in, or else a generated one
resolveManifest(gh, owner, repo, branch, customOptions) ==
    LET fetched == checkForManifest(gh)
    IN  IF ~fetched.found
        THEN generateManifest(gh, owner, repo, branch, customOptions)
        ELSE IF customOptions.resources.given
             THEN [fetched.manifest EXCEPT
                      !.resources = mergeResources(@, customOptions.resources)]
             ELSE fetched.manifest
-----------------------------------------------------------------------------
(* Inputs.                                                                 *)

Urls ==
    { "https://github.com/o/a",
      "https://github.com/o/A.git/tree/dev",
      "github.com/o" }

SlugInputs == {"a", "c"}

\* body.name of the dashboard's import: absent, or given
BodyNames == {"", "C"}

\* a manifest kept in the repository itself
UpstreamManifest ==
    [valid |-> TRUE, name |-> "C", slug |-> "c", categories |-> <<14>>,
     interface_port |-> 8080, description |-> "kept upstream",
     source |-> [type |-> "github", owner |-> "o", repo |-> "a", branch |-> "main",
                 project_type |-> "python"],
     resources |-> [cpu |-> 1, ram |-> 256, hdd |-> 2, os |-> "alpine", version |-> "3.23"]]

NoProbes == <<ProbeMissing, ProbeMissing, ProbeMissing, ProbeMissing>>
UpstreamProbes == <<ProbeMissing, ProbeError, ProbeFound(UpstreamManifest), ProbeMissing>>

Tree == [b \in Branches |-> IF b = "main" THEN {"package.json", "requirements.txt"}
                                          ELSE {"Dockerfile", "go.mod"}]

Repository(status, defaultBranch, probes) ==
    [status |-> status, owner |-> "o", name |-> "a", description |-> "",
     defaultBranch |-> defaultBranch, tree |-> Tree, probes |-> probes]

\* what the repository can be when the router or the CLI asks: without a
\* manifest, with one, or gone
RouterUpstream ==
    { Repository(200, "main", NoProbes),
      Repository(200, "main", UpstreamProbes),
      Repository(404, "main", NoProbes) }

\* what it can be when the dashboard asks: with either default branch,
\* private, or gone
DashboardUpstream ==
    { Repository(200, "main", NoProbes),
      Repository(200, "dev", NoProbes),
      Repository(403, "main", NoProbes),
      Repository(404, "main", NoProbes) }

-----------------------------------------------------------------------------
(* Installation script of the tRPC router: generateInstallScript.          *)

NodejsDeps ==
       "\n"
    \o "msg_info \"Installing Node.js\"\n"
    \o "curl -fsSL https://deb.nodesource.com/setup_24.x | bash -\n"
    \o "$STD apt-get install -y nodejs\n"
    \o "msg_ok \"Node.js installed\""

NodejsBuild ==
       "\n"
    \o "msg_info \"Installing dependencies\"\n"
    \o "$STD npm install\n"
    \o "if grep -q '\"build\"' package.json 2>/dev/null; then\n"
    \o "    msg_info \"Building application\"\n"
    \o "    $STD npm run build\n"
    \o "fi\n"
    \o "msg_ok \"Application built\""

NodejsService ==
       "ExecStart=/usr/bin/npm start"

PythonDeps ==
       "\n"
    \o "msg_info \"Installing Python\"\n"
    \o "$STD apt-get install -y python3 python3-pip python3-venv\n"
    \o "msg_ok \"Python installed\""

PythonBuild ==
       "\n"
    \o "msg_info \"Setting up Python environment\"\n"
    \o "python3 -m venv venv\n"
    \o "source venv/bin/activate\n"
    \o "if [ -f \"requirements.txt\" ]; then\n"
    \o "    $STD pip install -r requirements.txt\n"
    \o "fi\n"
    \o "if [ -f \"pyproject.toml\" ]; then\n"
    \o "    $STD pip install .\n"
    \o "fi\n"
    \o "msg_ok \"Environment configured\""

PythonService(slug) ==
       "ExecStart=/opt/"
    \o slug
    \o "/venv/bin/python -m app"

DockerDeps ==
       "\n"
    \o "msg_info \"Installing Docker\"\n"
    \o "$STD apt-get install -y ca-certificates gnupg\n"
    \o "install -m 0755 -d /etc/apt/keyrings\n"
    \o "curl -fsSL https://download.docker.com/linux/debian/gpg | gpg --dearmor -o /etc/apt/keyrings/docker.gpg\n"
    \o "chmod a+r /etc/apt/keyrings/docker.gpg\n"
    \o "echo \"deb [arch=$(dpkg --print-architecture) signed-by=/etc/apt/keyrings/docker.gpg] https://download.docker.com/linux/debian $(. /etc/os-release && echo \"$VERSION_CODENAME\") stable\" | tee /etc/apt/sources.list.d/docker.list > /dev/null\n"
    \o "$STD apt-get update\n"
    \o "$STD apt-get install -y docker-ce docker-ce-cli containerd.io docker-buildx-plugin docker-compose-plugin\n"
    \o "msg_ok \"Docker installed\""

DockerBuild(slug) ==
       "\n"
    \o "msg_info \"Building containers\"\n"
    \o "if [ -f \"docker-compose.yml\" ]; then\n"
    \o "    $STD docker compose build\n"
    \o "    $STD docker compose up -d\n"
    \o "else\n"
    \o "    $STD docker build -t "
    \o slug
    \o " .\n"
    \o "    $STD docker run -d --name "
    \o slug
    \o " --restart unless-stopped "
    \o slug
    \o "\n"
    \o "fi\n"
    \o "msg_ok \"Containers running\""

GolangDeps ==
       "\n"
    \o "msg_info \"Installing Go\"\n"
    \o "GO_VERSION=$(curl -s https://go.dev/VERSION?m=text | head -1)\n"
    \o "wget -q \"https://go.dev/dl/${GO_VERSION}.linux-amd64.tar.gz\"\n"
    \o "tar -C /usr/local -xzf \"${GO_VERSION}.linux-amd64.tar.gz\"\n"
    \o "rm \"${GO_VERSION}.linux-amd64.tar.gz\"\n"
    \o "export PATH=$PATH:/usr/local/go/bin\n"
    \o "msg_ok \"Go installed\""

GolangBuild ==
       "\n"
    \o "msg_info \"Building application\"\n"
    \o "$STD go build -o app .\n"
    \o "msg_ok \"Built\""

GolangService(slug) ==
       "ExecStart=/opt/"
    \o slug
    \o "/app"

GenericDeps ==
       "\n"
    \o "msg_info \"Installing dependencies\"\n"
    \o "$STD apt-get install -y wget\n"
    \o "msg_ok \"Dependencies installed\""

ServiceBlock(slug, name, execStart) ==
       "\n"
    \o "msg_info \"Creating systemd service\"\n"
    \o "cat > /etc/systemd/system/"
    \o slug
    \o ".service <<EOF\n"
    \o "[Unit]\n"
    \o "Description="
    \o name
    \o "\n"
    \o "After=network.target\n"
    \o "\n"
    \o "[Service]\n"
    \o "Type=simple\n"
    \o "User=root\n"
    \o "WorkingDirectory=/opt/"
    \o slug
    \o "\n"
    \o execStart
    \o "\n"
    \o "Restart=always\n"
    \o "RestartSec=10\n"
    \o "\n"
    \o "[Install]\n"
    \o "WantedBy=multi-user.target\n"
    \o "EOF\n"
    \o "\n"
    \o "systemctl daemon-reload\n"
    \o "systemctl enable --now "
    \o slug
    \o "\n"
    \o "msg_ok \"Service created\""

ScriptBody(slug, name, source, deps, build, service) ==
       "#!/usr/bin/env bash\n"
    \o "\n"
    \o "# Auto-generated installation script for "
    \o name
    \o "\n"
    \o "# Imported from: https://github.com/"
    \o source.owner
    \o "/"
    \o source.repo
    \o "\n"
    \o "\n"
    \o "source /dev/stdin <<< \"$FUNCTIONS_FILE_PATH\"\n"
    \o "color\n"
    \o "verb_ip6\n"
    \o "catch_errors\n"
    \o "setting_up_container\n"
    \o "network_check\n"
    \o "update_os\n"
    \o "\n"
    \o "msg_info \"Installing base dependencies\"\n"
    \o "$STD apt-get install -y curl git\n"
    \o "msg_ok \"Base dependencies installed\"\n"
    \o deps
    \o "\n"
    \o "\n"
    \o "msg_info \"Cloning repository\"\n"
    \o "cd /opt\n"
    \o "git clone -b \""
    \o source.branch
    \o "\" \"https://github.com/"
    \o source.owner
    \o "/"
    \o source.repo
    \o ".git\" \""
    \o slug
    \o "\"\n"
    \o "cd \"/opt/"
    \o slug
    \o "\"\n"
    \o "msg_ok \"Repository cloned\"\n"
    \o build
    \o "\n"
    \o service
    \o "\n"
    \o "\n"
    \o "motd_ssh\n"
    \o "customize\n"
    \o "\n"
    \o "msg_info \"Cleaning up\"\n"
    \o "$STD apt-get -y autoremove\n"
    \o "$STD apt-get -y autoclean\n"
    \o "msg_ok \"Cleaned\"\n"

depsSection(projectType) ==
    CASE projectType = "nodejs" -> NodejsDeps
      [] projectType = "python" -> PythonDeps
      [] projectType = "docker" -> DockerDeps
      [] projectType = "golang" -> GolangDeps
      [] OTHER -> GenericDeps

buildSection(projectType, slug) ==
    CASE projectType = "nodejs" -> NodejsBuild
      [] projectType = "python" -> PythonBuild
      [] projectType = "docker" -> DockerBuild(slug)
      [] projectType = "golang" -> GolangBuild
      [] OTHER -> ""

serviceSection(projectType, slug) ==
    CASE projectType = "nodejs" -> NodejsService
      [] projectType = "python" -> PythonService(slug)
      [] projectType = "golang" -> GolangService(slug)
      [] OTHER -> ""

generateInstallScript(manifest) ==
    LET slug == manifest.slug
        name == manifest.name
        projectType == manifest.source.project_type
        execStart == serviceSection(projectType, slug)
        serviceBlock == IF execStart # "" THEN ServiceBlock(slug, name, execStart) ELSE ""
    IN  ScriptBody(slug, name, manifest.source, depsSection(projectType),
                   buildSection(projectType, slug), serviceBlock)

-----------------------------------------------------------------------------
(* The registry of the tRPC router and the CLI: data/custom-imports.json.  *)

\* an absent or empty time stamp: it precedes every date
NoTime == -1

NoConfigFile == [st |-> "absent", imports |-> <<>>, last_updated |-> NoTime]
CorruptConfigFile == [st |-> "corrupt", imports |-> <<>>, last_updated |-> NoTime]
EmptyConfigFile == [st |-> "empty", imports |-> <<>>, last_updated |-> NoTime]
ConfigDoc(imports, lastUpdated) ==
    [st |-> "ok", imports |-> imports, last_updated |-> lastUpdated]

\* getConfig: the parsed document, or an empty one when the file cannot be
\* read or parsed
getConfig(file) == IF file.st = "ok" THEN file ELSE ConfigDoc(<<>>, NoTime)

\* saveConfig as step i of a request
saveConfig(file, config, i, fault) ==
    IF fault.idx > i THEN config
    ELSE IF fault.idx = i /\ fault.partial
    THEN IF fault.empty THEN EmptyConfigFile ELSE CorruptConfigFile
    ELSE file

\* imports.findIndex(i => i.slug === slug), 0 when there is none
findIndex(imports, slug) ==
    IF \E i \in 1..Len(imports) : imports[i].slug = slug
    THEN CHOOSE i \in 1..Len(imports) :
            /\ imports[i].slug = slug
            /\ \A j \in 1..(i - 1) : imports[j].slug # slug
    ELSE 0

\* imports.filter(i => i.slug !== slug), and jq's
\* [.imports[] | select(.slug != $slug)]
\* a filter that drops nothing
filterKeepsAll(imports, slug) == imports

RECURSIVE filterOut(_, _)
filterOut(imports, slug) ==
    IF imports = <<>> THEN <<>>
    ELSE IF Head(imports).slug = slug THEN filterOut(Tail(imports), slug)
    ELSE <<Head(imports)>> \o filterOut(Tail(imports), slug)

\* lines 476-491 of import and addImport of the library: the record of the
\* same slug is replaced where it stands, a new one is appended
upsertAppendOnly(imports, entry) == Append(imports, entry)

upsert(imports, entry) ==
    LET existingIndex == findIndex(imports, entry.slug)
    IN  IF existingIndex > 0
        THEN [imports EXCEPT ![existingIndex] = entry]
        ELSE Append(imports, entry)

slugsOf(imports) == {imports[i].slug : i \in 1..Len(imports)}

sourceUrl(owner, repo) == "https://github.com/" \o owner \o "/" \o repo

-----------------------------------------------------------------------------
(* What a request returned.                                                *)
(*   impl, op, arg   who served which operation; arg is the slug asked for *)
(*                   (get, remove, update) or the command line (main)      *)
(*   ok, err         success, or the kind of error                         *)
(*   slug            slug of the manifest the request produced or returned *)
(*   ref             branch the repository's files were listed for         *)
(*   step            index of the refused step (NoFaultIdx: none)          *)
(*   manifest, text  manifest and installScriptPreview of a preview        *)
(*   absent          a remove found the manifest or the script of arg      *)
(*                   already missing                                       *)
(*   entries         what a list returned, or the slugs update-all called  *)
(*                   update_import for                                     *)
(*   status, auth    the status of a repository-metadata call that was not *)
(*                   2xx (0 when there was none) and whether the call      *)
(*                   carried a stored credential                           *)
Result(impl, op, arg, ok, err, slug, ref, step) ==
    [impl |-> impl, op |-> op, arg |-> arg, ok |-> ok, err |-> err,
     slug |-> slug, ref |-> ref, step |-> step, manifest |-> CorruptJson, text |-> "",
     absent |-> FALSE, entries |-> <<>>, status |-> 0, auth |-> FALSE]

\* what a remove of slug finds missing
Absent(result, manifests, scripts, slug) ==
    [result EXCEPT !.absent = slug \notin DOMAIN manifests \/ slug \notin DOMAIN scripts]

NoRequest == Result("", "", "", TRUE, "", "", "", NoFaultIdx)

\* no request is in flight
NoCalls == <<>>

-----------------------------------------------------------------------------
(* Stored credentials of the dashboard: config/.credentials.enc, read and  *)
(* written whole.  An absent optional field of a credential or of a        *)
(* request body is "": JSON.stringify leaves out undefined, and the code   *)
(* tests these fields for truthiness only.                                 *)

NoCredentialsFile == [st |-> "absent", credentials |-> <<>>]
CredentialsDoc(credentials) == [st |-> "ok", credentials |-> credentials]

\* loadCredentials: the stored array, [] when the file cannot be read
loadCredentials(file) == IF file.st = "ok" THEN file.credentials ELSE <<>>

\* saveCredentials
saveCredentials(credentials) == CredentialsDoc(credentials)

\* array.find / array.findIndex: the first index that passes, 0 for none
find(array, test(_)) ==
    IF \E i \in 1..Len(array) : test(array[i])
    THEN CHOOSE i \in 1..Len(array) : test(array[i]) /\ \A j \in 1..(i - 1) : ~test(array[j])
    ELSE 0

\* addCredential
addCredential(credentials, credential, id, date) ==
    Append(credentials,
           [id |-> id, name |-> credential.name, provider |-> credential.provider,
            baseUrl |-> credential.baseUrl, authType |-> credential.authType,
            username |-> credential.username, token |-> credential.token,
            createdAt |-> date, updatedAt |-> date])

\* { ...credentials[index], ...updates, updatedAt }: every key of updates
\* replaces the stored value, whether it carries a value or undefined
spread(credential, updates, date) ==
    [f \in DOMAIN credential |->
        IF f = "updatedAt" THEN date
        ELSE IF f \in DOMAIN updates THEN updates[f]
        ELSE credential[f]]

\* updateCredential: the stored array afterwards and the credential
\* returned, index = 0 for null
updateCredential(credentials, id, updates, date) ==
    LET index == find(credentials, LAMBDA c : c.id = id)
    IN  IF index = 0
        THEN [index |-> 0, credentials |-> credentials]
        ELSE [index |-> index,
              credentials |-> [credentials EXCEPT ![index] = spread(@, updates, date)]]

\* deleteCredential
deleteCredential(credentials, id) == SelectSeq(credentials, LAMBDA c : c.id # id)

\* getCredentialById
getCredentialById(credentials, id) == find(credentials, LAMBDA c : c.id = id)

\* getCredentialForUrl: the index of the credential returned, 0 for null
getCredentialForUrl(credentials, url) ==
    IF Contains(url, "github.com") THEN find(credentials, LAMBDA c : c.provider = "github")
    ELSE IF Contains(url, "gitlab.com") THEN find(credentials, LAMBDA c : c.provider = "gitlab")
    ELSE IF Contains(url, "bitbucket.org")
    THEN find(credentials, LAMBDA c : c.provider = "bitbucket")
    ELSE find(credentials, LAMBDA c : c.baseUrl # "" /\ Contains(url, c.baseUrl))

\* buildAuthHeader returns a header, not {}
buildAuthHeader(credential) ==
    \/ credential.authType = "token" /\ credential.token # ""
    \/ credential.authType = "basic" /\ credential.username # "" /\ credential.token # ""

\* the request to the repository host carries a stored credential
authApplied(file, url) ==
    LET credentials == loadCredentials(file)
        index == getCredentialForUrl(credentials, url)
    IN  index # 0 /\ buildAuthHeader(credentials[index])

(* The credentials API.                                                    *)

\* a view that hands out the credential as stored
storedCredential(c) ==
    [f \in DOMAIN c \cup {"hasToken"} |-> IF f = "hasToken" THEN c.token # "" ELSE c[f]]

\* the credential "without sensitive data" of GET
safeCredential(c) ==
    [id |-> c.id, name |-> c.name, provider |-> c.provider, baseUrl |-> c.baseUrl,
     authType |-> c.authType, username |-> c.username, hasToken |-> c.token # "",
     createdAt |-> c.createdAt, updatedAt |-> c.updatedAt]

\* GET /api/settings/credentials
listResponse(credentials) ==
    [status |-> 200, data |-> [i \in 1..Len(credentials) |-> safeCredential(credentials[i])]]

\* GET /api/settings/credentials/[id]
getResponse(credentials, id) ==
    LET index == getCredentialById(credentials, id)
    IN  IF index = 0 THEN [status |-> 404, data |-> <<>>]
        ELSE [status |-> 200, data |-> <<safeCredential(credentials[index])>>]

\* the body of a POST passes the route's validation
validBody(body) ==
    /\ body.name # "" /\ body.provider # "" /\ body.authType # ""
    /\ body.authType = "token" => body.token # ""
    /\ body.authType = "basic" => (body.username # "" /\ body.token # "")

\* POST /api/settings/credentials: the stored array afterwards and the
\* response; data leaves out updatedAt
postCredential(credentials, body, id, date) ==
    IF ~validBody(body)
    THEN [credentials |-> credentials, response |-> [status |-> 400, data |-> <<>>]]
    ELSE LET added == addCredential(credentials, body, id, date)
             view == safeCredential(added[Len(added)])
         IN  [credentials |-> added,
              response |-> [status |-> 200,
                            data |-> <<[f \in DOMAIN view \ {"updatedAt"} |-> view[f]]>>]]

\* PUT /api/settings/credentials/[id]: the six fields of the body are
\* handed to updateCredential, given or not
putCredential(credentials, id, body, date) ==
    LET updated == updateCredential(credentials, id, body, date)
    IN  IF updated.index = 0
        THEN [credentials |-> credentials, response |-> [status |-> 404, data |-> <<>>]]
        ELSE LET view == safeCredential(updated.credentials[updated.index])
             IN  [credentials |-> updated.credentials,
                  response |-> [status |-> 200,
                                data |-> <<[f \in {"id", "name", "provider", "hasToken",
                                                   "updatedAt"} |-> view[f]]>>]]

-----------------------------------------------------------------------------
(* tRPC router: customImportProcedures.                                    *)

PreviewLen == 500

\* a request of the router that ends before it writes anything
TrpcReject(result) ==
    /\ last' = result
    /\ UNCHANGED <<trpcFiles, now, removed>>

importEntry(manifest, owner, repo, branch, date) ==
    [slug |-> manifest.slug, source |-> sourceUrl(owner, repo), branch |-> branch,
     imported_at |-> date, version |-> "latest"]

\* customImportProcedures.import, upstream being what the repository can be
TrpcImportFrom(url, customOptions, upstream) ==
    /\ app = "router"
    /\ now <= MaxClock
    /\ UNCHANGED <<dashFiles, app, calls>>
    /\ IF ~GitHubUrlSchema(url)
       THEN TrpcReject(Result("trpc", "import", "", FALSE, "BAD_REQUEST", "", "", NoFaultIdx))
       ELSE \E parsed \in {parseGitHubUrl(url)}, gh \in upstream :
            \E manifest \in {resolveManifest(gh, parsed.owner, parsed.repo, parsed.branch,
                                             customOptions)} :
            \E installScript \in {generateInstallScript(manifest)} :
            LET fetched == checkForManifest(gh)
                slug == manifest.slug
                config == getConfig(configFile)
                newConfig == ConfigDoc(upsert(config.imports,
                                              importEntry(manifest, parsed.owner, parsed.repo,
                                                          parsed.branch, now)),
                                       now)
            IN  \E fault \in Faults({StepMkdir, StepChmod},
                                    {StepManifest, StepScript, StepCopy, StepRegistry},
                                    {StepRegistry}) :
                IF fault.idx = StepMkdir
                THEN /\ last' = Result("trpc", "import", "", FALSE, "PERSISTENCE", "", "", fault.idx)
                     /\ now' = now + 1
                     /\ UNCHANGED <<trpcFiles, removed>>
                ELSE IF ~parsed.ok
                THEN /\ fault = NoFault
                     /\ TrpcReject(Result("trpc", "import", "", FALSE, "BAD_REQUEST", "", "", NoFaultIdx))
                ELSE IF ~fetched.found /\ gh.status # 200
                THEN /\ fault = NoFault
                     /\ TrpcReject([Result("trpc", "import", "", FALSE, "NOT_FOUND", "", "",
                                           NoFaultIdx) EXCEPT !.status = gh.status])
                ELSE LET written == WriteFile(customCt, slug,
                                              ScriptFile(customCt, slug, installScript, Mode644),
                                              ScriptFile(customCt, slug, "", Mode644),
                                              StepScript, fault)
                     IN  /\ customJson' = WriteFile(customJson, slug, manifest, CorruptJson,
                                                    StepManifest, fault)
                         /\ customCt' = IF fault.idx > StepChmod
                                        THEN Chmod(written, slug, Mode755) ELSE written
                         /\ mainJson' = WriteFile(mainJson, slug, manifest, CorruptJson,
                                                  StepCopy, fault)
                         /\ configFile' = saveConfig(configFile, newConfig, StepRegistry, fault)
                         /\ now' = now + 1
                         /\ last' = IF fault = NoFault
                                    THEN Result("trpc", "import", "", TRUE, "", slug,
                                                parsed.branch, NoFaultIdx)
                                    ELSE Result("trpc", "import", "", FALSE, "PERSISTENCE", slug,
                                                parsed.branch, fault.idx)
                         /\ removed' = IF fault = NoFault THEN removed \ {slug} ELSE removed

TrpcImport(url, customOptions) == TrpcImportFrom(url, customOptions, RouterUpstream)

\* what get reads: the manifest of slug, or NOT_FOUND when the file is
\* missing or does not parse
getManifest(dir, slug) ==
    IF slug \in DOMAIN dir /\ dir[slug].valid
    THEN [ok |-> TRUE, manifest |-> dir[slug]]
    ELSE [ok |-> FALSE, manifest |-> CorruptJson]

\* customImportProcedures.get
TrpcGet(slug) ==
    LET got == getManifest(customJson, slug)
    IN  /\ app = "router"
        /\ now <= MaxClock
        /\ last' = IF got.ok
                   THEN Result("trpc", "get", slug, TRUE, "", got.manifest.slug, "", NoFaultIdx)
                   ELSE Result("trpc", "get", slug, FALSE, "NOT_FOUND", "", "", NoFaultIdx)
        /\ UNCHANGED <<trpcFiles, dashFiles, app, calls, now, removed>>

\* one element of list's map: the record with name, description, projectType
\* and resources of its manifest, or the record itself when the manifest
\* cannot be read or parsed
listEntry(dir, imp) ==
    LET got == getManifest(dir, imp.slug)
        manifest == got.manifest
        added == {"name", "description", "projectType", "resources"}
    IN  IF got.ok
        THEN [f \in DOMAIN imp \cup added |->
                 CASE f = "name" -> manifest.name
                   [] f = "description" -> manifest.description
                   [] f = "projectType" -> manifest.source.project_type
                   [] f = "resources" -> manifest.resources
                   [] OTHER -> imp[f]]
        ELSE imp

\* a list that leaves out the records whose manifest it cannot read
listReadable(dir, imports) ==
    LET readable == SelectSeq(imports, LAMBDA imp : getManifest(dir, imp.slug).ok)
    IN  [i \in 1..Len(readable) |-> listEntry(dir, readable[i])]

\* config.imports.map(...) of list
listImports(dir, imports) == [i \in 1..Len(imports) |-> listEntry(dir, imports[i])]

\* customImportProcedures.list
TrpcList ==
    /\ app = "router"
    /\ last' = [Result("trpc", "list", "", TRUE, "", "", "", NoFaultIdx)
                  EXCEPT !.entries = listImports(customJson, getConfig(configFile).imports)]
    /\ UNCHANGED <<trpcFiles, dashFiles, app, calls, now, removed>>

\* customImportProcedures.remove
TrpcRemove(slug) ==
    LET config == getConfig(configFile)
        newConfig == ConfigDoc(filterOut(config.imports, slug), now)
    IN  /\ app = "router"
        /\ now <= MaxClock
        /\ \E fault \in Faults({}, {StepRegistry}, {StepRegistry}) :
              /\ customJson' = Unlink(customJson, slug)
              /\ customCt' = Unlink(customCt, slug)
              /\ mainJson' = Unlink(mainJson, slug)
              /\ configFile' = saveConfig(configFile, newConfig, StepRegistry, fault)
              /\ now' = now + 1
              /\ last' = Absent(IF fault = NoFault
                                THEN Result("trpc", "remove", slug, TRUE, "", slug, "", NoFaultIdx)
                                ELSE Result("trpc", "remove", slug, FALSE, "PERSISTENCE", slug, "",
                                            fault.idx),
                                customJson, customCt, slug)
              /\ removed' = IF fault = NoFault THEN removed \cup {slug} ELSE removed
        /\ UNCHANGED <<dashFiles, app, calls>>

\* customImportProcedures.update
TrpcUpdate(slugArg) ==
    LET config == getConfig(configFile)
        index == findIndex(config.imports, slugArg)
    IN  /\ app = "router"
        /\ now <= MaxClock
        /\ UNCHANGED <<dashFiles, app, calls>>
        /\ IF index = 0
           THEN TrpcReject(Result("trpc", "update", slugArg, FALSE, "NOT_FOUND", "", "", NoFaultIdx))
           ELSE \E parsed \in {parseGitHubUrl(config.imports[index].source \o "/tree/"
                                                  \o config.imports[index].branch)},
                   gh \in RouterUpstream :
                \E manifest \in {resolveManifest(gh, parsed.owner, parsed.repo, parsed.branch,
                                                 NoCustom)} :
                \E installScript \in {generateInstallScript(manifest)} :
                LET fetched == checkForManifest(gh)
                    slug == manifest.slug
                    newConfig == [config EXCEPT !.imports[index].imported_at = now]
                IN  IF ~parsed.ok
                    THEN TrpcReject(Result("trpc", "update", slugArg, FALSE, "BAD_REQUEST", "", "", NoFaultIdx))
                    ELSE IF ~fetched.found /\ gh.status # 200
                    THEN TrpcReject(Result("trpc", "update", slugArg, FALSE, "NOT_FOUND", "",
                                           parsed.branch, NoFaultIdx))
                    ELSE \E fault \in Faults({}, {StepManifest, StepScript, StepCopy, StepRegistry},
                                            {StepRegistry}) :
                         /\ customJson' = WriteFile(customJson, slug, manifest, CorruptJson,
                                                    StepManifest, fault)
                         /\ customCt' = WriteFile(customCt, slug,
                                                  ScriptFile(customCt, slug, installScript, Mode644),
                                                  ScriptFile(customCt, slug, "", Mode644),
                                                  StepScript, fault)
                         /\ mainJson' = WriteFile(mainJson, slug, manifest, CorruptJson,
                                                  StepCopy, fault)
                         /\ configFile' = saveConfig(configFile, newConfig, StepRegistry, fault)
                         /\ now' = now + 1
                         /\ last' = IF fault = NoFault
                                    THEN Result("trpc", "update", slugArg, TRUE, "", slug,
                                                parsed.branch, NoFaultIdx)
                                    ELSE Result("trpc", "update", slugArg, FALSE, "PERSISTENCE", slug,
                                                parsed.branch, fault.idx)
                         /\ UNCHANGED removed

\* installScriptPreview of preview
installScriptPreviewPrefix(manifest) == Slice(generateInstallScript(manifest), PreviewLen)

installScriptPreview(manifest) == Slice(generateInstallScript(manifest), PreviewLen) \o "..."

\* customImportProcedures.preview, were it to save the manifest it resolves
TrpcPreviewSaving(url) ==
    /\ app = "router"
    /\ now <= MaxClock
    /\ UNCHANGED <<configFile, customCt, mainJson, dashFiles, app, calls, now, removed>>
    /\ \E gh \in RouterUpstream :
          /\ customJson' = Put(customJson, "a", resolveManifest(gh, "o", "a", "main", NoCustom))
          /\ last' = Result("trpc", "preview", "", TRUE, "", "a", "main", NoFaultIdx)

\* customImportProcedures.preview
TrpcPreview(url) ==
    /\ app = "router"
    /\ now <= MaxClock
    /\ UNCHANGED <<trpcFiles, dashFiles, app, calls, now, removed>>
    /\ IF ~GitHubUrlSchema(url)
       THEN last' = Result("trpc", "preview", "", FALSE, "BAD_REQUEST", "", "", NoFaultIdx)
       ELSE \E parsed \in {parseGitHubUrl(url)}, gh \in RouterUpstream :
            \E manifest \in {resolveManifest(gh, parsed.owner, parsed.repo, parsed.branch,
                                             NoCustom)} :
            LET fetched == checkForManifest(gh)
            IN  last' = IF ~parsed.ok
                        THEN Result("trpc", "preview", "", FALSE, "BAD_REQUEST", "", "", NoFaultIdx)
                        ELSE IF ~fetched.found /\ gh.status # 200
                        THEN Result("trpc", "preview", "", FALSE, "NOT_FOUND", "", "", NoFaultIdx)
                        ELSE [Result("trpc", "preview", "", TRUE, "", manifest.slug,
                                     parsed.branch, NoFaultIdx)
                                 EXCEPT !.manifest = manifest,
                                        !.text = installScriptPreview(manifest)]

-----------------------------------------------------------------------------
(* CLI: pvescripts-import.sh, run under set -euo pipefail.                 *)

\* check_manifest: the first location whose answer holds a download_url
\* counts as found, and its download is taken as the manifest unread
RECURSIVE check_from(_, _)
check_from(gh, i) ==
    IF i > Len(locations) THEN ProbeMissing
    ELSE IF Probe(gh, i).kind \in {"found", "badjson", "nodownload"} THEN Probe(gh, i)
    ELSE check_from(gh, i + 1)

check_manifest(gh) == check_from(gh, 1)

\* the project type and resources generate_manifest ends with: every test
\* that matches overwrites what the ones before it set
cli_project(files) ==
    LET t0 == [project_type |-> "generic", ram |-> 512, hdd |-> 4]
        t1 == IF "package.json" \in files
              THEN [project_type |-> "nodejs", ram |-> 1024, hdd |-> 8] ELSE t0
        t2 == IF "requirements.txt" \in files \/ "pyproject.toml" \in files
              THEN [t1 EXCEPT !.project_type = "python", !.ram = 1024] ELSE t1
        t3 == IF "Dockerfile" \in files \/ "docker-compose.yml" \in files
              THEN [project_type |-> "docker", ram |-> 2048, hdd |-> 16] ELSE t2
        t4 == IF "go.mod" \in files
              THEN [t3 EXCEPT !.project_type = "golang", !.ram = 1024] ELSE t3
    IN  t4

\* the first of install.sh, setup.sh, deploy.sh, scripts/install.sh whose
\* base name is a file of the repository's root
cli_install_script(files) ==
    IF "install.sh" \in files THEN "install.sh"
    ELSE IF "setup.sh" \in files THEN "setup.sh"
    ELSE IF "deploy.sh" \in files THEN "deploy.sh"
    ELSE ""

\* generate_manifest: it does not look at the status of its requests
generate_manifest(gh, owner, repo, branch) ==
    LET files == Contents(gh, branch).files
        project == cli_project(files)
        projectType == project.project_type
    IN  [valid |-> TRUE,
         name |-> repo,
         slug |-> cliSlug(repo),
         categories |-> <<14>>,
         interface_port |-> IF projectType \in {"nodejs", "python"} THEN 3000 ELSE NoPort,
         description |-> IF gh.status = 200 /\ gh.description # ""
                         THEN gh.description ELSE "Custom imported script",
         source |-> [type |-> "github", owner |-> owner, repo |-> repo, branch |-> branch,
                     project_type |-> projectType,
                     install_script |-> cli_install_script(files)],
         resources |-> [cpu |-> 1, ram |-> project.ram, hdd |-> project.hdd,
                        os |-> "debian", version |-> "13"]]

SCRIPT_HEADER ==
       "#!/usr/bin/env bash\n"
    \o "\n"
    \o "# Custom Import Installation Script\n"
    \o "# Auto-generated by PVEScriptsLocal Custom Importer\n"
    \o "\n"
    \o "source /dev/stdin <<< \"$FUNCTIONS_FILE_PATH\"\n"
    \o "color\n"
    \o "verb_ip6\n"
    \o "catch_errors\n"
    \o "setting_up_container\n"
    \o "network_check\n"
    \o "update_os\n"
    \o "\n"
    \o "msg_info \"Installing dependencies\"\n"

NODEJS_DEPS ==
       "$STD apt-get install -y curl git\n"
    \o "msg_ok \"Installed base dependencies\"\n"
    \o "\n"
    \o "msg_info \"Setting up Node.js\"\n"
    \o "curl -fsSL https://deb.nodesource.com/setup_24.x | bash -\n"
    \o "$STD apt-get install -y nodejs\n"
    \o "msg_ok \"Node.js installed\"\n"
    \o "\n"
    \o "msg_info \"Cloning repository\"\n"

PYTHON_DEPS ==
       "$STD apt-get install -y curl git python3 python3-pip python3-venv\n"
    \o "msg_ok \"Installed Python dependencies\"\n"
    \o "\n"
    \o "msg_info \"Cloning repository\"\n"

DOCKER_DEPS ==
       "$STD apt-get install -y curl git ca-certificates gnupg\n"
    \o "msg_ok \"Installed base dependencies\"\n"
    \o "\n"
    \o "msg_info \"Installing Docker\"\n"
    \o "install -m 0755 -d /etc/apt/keyrings\n"
    \o "curl -fsSL https://download.docker.com/linux/debian/gpg | gpg --dearmor -o /etc/apt/keyrings/docker.gpg\n"
    \o "chmod a+r /etc/apt/keyrings/docker.gpg\n"
    \o "echo \"deb [arch=$(dpkg --print-architecture) signed-by=/etc/apt/keyrings/docker.gpg] https://download.docker.com/linux/debian $(. /etc/os-release && echo \"$VERSION_CODENAME\") stable\" | tee /etc/apt/sources.list.d/docker.list > /dev/null\n"
    \o "$STD apt-get update\n"
    \o "$STD apt-get install -y docker-ce docker-ce-cli containerd.io docker-buildx-plugin docker-compose-plugin\n"
    \o "msg_ok \"Docker installed\"\n"
    \o "\n"
    \o "msg_info \"Cloning repository\"\n"

GO_DEPS ==
       "$STD apt-get install -y curl git\n"
    \o "msg_ok \"Installed base dependencies\"\n"
    \o "\n"
    \o "msg_info \"Installing Go\"\n"
    \o "GO_VERSION=$(curl -s https://go.dev/VERSION?m=text | head -1)\n"
    \o "wget -q \"https://go.dev/dl/${GO_VERSION}.linux-amd64.tar.gz\"\n"
    \o "tar -C /usr/local -xzf \"${GO_VERSION}.linux-amd64.tar.gz\"\n"
    \o "rm \"${GO_VERSION}.linux-amd64.tar.gz\"\n"
    \o "export PATH=$PATH:/usr/local/go/bin\n"
    \o "echo 'export PATH=$PATH:/usr/local/go/bin' >> /etc/profile\n"
    \o "msg_ok \"Go installed\"\n"
    \o "\n"
    \o "msg_info \"Cloning repository\"\n"

GENERIC_DEPS ==
       "$STD apt-get install -y curl git wget\n"
    \o "msg_ok \"Installed dependencies\"\n"
    \o "\n"
    \o "msg_info \"Cloning repository\"\n"

CLONE_SECTION(REPO_OWNER, REPO_NAME, REPO_BRANCH, slug) ==
       "cd /opt\n"
    \o "git clone -b \""
    \o REPO_BRANCH
    \o "\" \"https://github.com/"
    \o REPO_OWNER
    \o "/"
    \o REPO_NAME
    \o ".git\" \""
    \o slug
    \o "\"\n"
    \o "cd \"/opt/"
    \o slug
    \o "\"\n"
    \o "msg_ok \"Repository cloned\"\n"

NODEJS_BUILD ==
       "\n"
    \o "msg_info \"Installing Node.js dependencies\"\n"
    \o "$STD npm install\n"
    \o "if [ -f \"package.json\" ] && grep -q '\"build\"' package.json; then\n"
    \o "    msg_info \"Building application\"\n"
    \o "    $STD npm run build\n"
    \o "fi\n"
    \o "msg_ok \"Application built\"\n"

PYTHON_BUILD ==
       "\n"
    \o "msg_info \"Setting up Python environment\"\n"
    \o "python3 -m venv venv\n"
    \o "source venv/bin/activate\n"
    \o "if [ -f \"requirements.txt\" ]; then\n"
    \o "    $STD pip install -r requirements.txt\n"
    \o "fi\n"
    \o "if [ -f \"pyproject.toml\" ]; then\n"
    \o "    $STD pip install .\n"
    \o "fi\n"
    \o "msg_ok \"Python environment configured\"\n"

DOCKER_BUILD ==
       "\n"
    \o "msg_info \"Building Docker containers\"\n"
    \o "if [ -f \"docker-compose.yml\" ]; then\n"
    \o "    $STD docker compose build\n"
    \o "    $STD docker compose up -d\n"
    \o "else\n"
    \o "    $STD docker build -t app .\n"
    \o "    $STD docker run -d --name app --restart unless-stopped app\n"
    \o "fi\n"
    \o "msg_ok \"Docker containers running\"\n"

GO_BUILD ==
       "\n"
    \o "msg_info \"Building Go application\"\n"
    \o "$STD go build -o app .\n"
    \o "msg_ok \"Application built\"\n"

SERVICE_SECTION(REPO_NAME, slug) ==
       "\n"
    \o "msg_info \"Creating systemd service\"\n"
    \o "cat > /etc/systemd/system/"
    \o slug
    \o ".service <<EOF\n"
    \o "[Unit]\n"
    \o "Description="
    \o REPO_NAME
    \o "\n"
    \o "After=network.target\n"
    \o "\n"
    \o "[Service]\n"
    \o "Type=simple\n"
    \o "User=root\n"
    \o "WorkingDirectory=/opt/"
    \o slug
    \o "\n"

NODEJS_SERVICE ==
       "ExecStart=/usr/bin/npm start\n"

PYTHON_SERVICE ==
       "ExecStart=/opt/${slug}/venv/bin/python -m app\n"

GO_SERVICE ==
       "ExecStart=/opt/${slug}/app\n"

SERVICE_END ==
       "Restart=always\n"
    \o "RestartSec=10\n"
    \o "\n"
    \o "[Install]\n"
    \o "WantedBy=multi-user.target\n"
    \o "EOF\n"
    \o "\n"
    \o "systemctl daemon-reload\n"
    \o "systemctl enable --now ${slug}\n"
    \o "msg_ok \"Service created and started\"\n"

SCRIPT_FOOTER ==
       "\n"
    \o "motd_ssh\n"
    \o "customize\n"
    \o "\n"
    \o "msg_info \"Cleaning up\"\n"
    \o "$STD apt-get -y autoremove\n"
    \o "$STD apt-get -y autoclean\n"
    \o "msg_ok \"Cleaned\"\n"

\* jq -r '.source.install_script // ""'
install_script_of(manifest) ==
    IF "install_script" \in DOMAIN manifest.source THEN manifest.source.install_script ELSE ""

\* generate_install_script: the text appended to custom-ct/<slug>.sh.  With
\* an install script named in the manifest the CUSTOM_INSTALL text expands
\* $STD, which nothing sets: the run ends there (set -u), the text so far
\* is in the file (done = FALSE).
generate_install_script(manifest, parsed) ==
    LET slug == manifest.slug
        project_type == manifest.source.project_type
        deps == CASE project_type = "nodejs" -> NODEJS_DEPS
                  [] project_type = "python" -> PYTHON_DEPS
                  [] project_type = "docker" -> DOCKER_DEPS
                  [] project_type = "golang" -> GO_DEPS
                  [] OTHER -> GENERIC_DEPS
        build == CASE project_type = "nodejs" -> NODEJS_BUILD
                   [] project_type = "python" -> PYTHON_BUILD
                   [] project_type = "docker" -> DOCKER_BUILD
                   [] project_type = "golang" -> GO_BUILD
                   [] OTHER -> ""
        execStart == CASE project_type = "nodejs" -> NODEJS_SERVICE
                       [] project_type = "python" -> PYTHON_SERVICE
                       [] project_type = "golang" -> GO_SERVICE
                       [] OTHER -> ""
        service == IF project_type \in {"nodejs", "python", "golang"}
                   THEN SERVICE_SECTION(parsed.repo, slug) \o execStart \o SERVICE_END
                   ELSE ""
        built == SCRIPT_HEADER \o deps
                   \o CLONE_SECTION(parsed.owner, parsed.repo, parsed.branch, slug) \o build
    IN  IF install_script_of(manifest) # ""
        THEN [done |-> FALSE, text |-> built]
        ELSE [done |-> TRUE, text |-> built \o service \o SCRIPT_FOOTER]

\* update_registry: a missing registry file is created with no imports.
\* The jq program that follows,
\*     .imports = [...] + [$entry] | .last_updated = now | todate
\* pipes the whole document into todate, which accepts numbers only: on a
\* document jq fails, and under set -e the run ends before the registry is
\* written (done is FALSE).  From an empty file jq reads no document and
\* prints nothing: the empty output is written back and the run goes on.
update_registry(file) ==
    IF file.st = "absent" THEN [done |-> FALSE, file |-> ConfigDoc(<<>>, NoTime)]
    ELSE IF file.st = "empty" THEN [done |-> TRUE, file |-> file]
    ELSE [done |-> FALSE, file |-> file]

\* trigger_rebuild: every file of json/custom/ is copied to json/custom-<name>
trigger_rebuild(copies, manifests) ==
    [n \in DOMAIN copies \cup DOMAIN manifests |->
        IF n \in DOMAIN manifests THEN manifests[n] ELSE copies[n]]

\* a run of the CLI that ends before it writes anything
CliReject(result) ==
    /\ last' = result
    /\ UNCHANGED <<trpcFiles, now, removed>>

\* the files the CLI works on
CliFiles ==
    [configFile |-> configFile, customJson |-> customJson, customCt |-> customCt,
     mainJson |-> mainJson]

\* import_from_github once the URL is parsed, the manifest fetched or
\* generated and the script text built: the files it leaves, whether it
\* reached the file system (wrote) and what the run returned
import_outcome(files, op, arg, parsed, fetched, manifest, script) ==
    LET slug == manifest.slug
    IN  IF ~parsed.ok
        THEN [files |-> files, wrote |-> FALSE,
              result |-> Result("cli", op, arg, FALSE, "INVALID_URL", "", "", NoFaultIdx)]
        ELSE IF fetched.kind \in {"badjson", "nodownload"}
        THEN \* what was downloaded is no manifest: jq -r '.slug' fails on it
             [files |-> files, wrote |-> FALSE,
              result |-> Result("cli", op, arg, FALSE, "JQ", "", parsed.branch, NoFaultIdx)]
        ELSE LET saved == IF script.done THEN Put(files.customJson, slug, manifest)
                          ELSE files.customJson
                 registry == update_registry(files.configFile)
                 complete == script.done /\ registry.done
             IN  [files |->
                      [customCt |-> Put(files.customCt, slug,
                                        [text |-> script.text,
                                         mode |-> IF script.done THEN Mode755
                                                  ELSE ScriptFile(files.customCt, slug, "",
                                                                  Mode644).mode]),
                       customJson |-> saved,
                       configFile |-> IF script.done THEN registry.file ELSE files.configFile,
                       mainJson |-> IF complete THEN trigger_rebuild(files.mainJson, saved)
                                    ELSE files.mainJson],
                  wrote |-> TRUE,
                  result |-> Result("cli", op, arg, complete,
                                    IF ~script.done THEN "UNBOUND"
                                    ELSE IF ~registry.done THEN "JQ" ELSE "",
                                    slug, parsed.branch, NoFaultIdx)]

\* the run leaves the files of out and returns its result
CliDone(out) ==
    /\ customCt' = out.files.customCt
    /\ customJson' = out.files.customJson
    /\ configFile' = out.files.configFile
    /\ mainJson' = out.files.mainJson
    /\ last' = out.result
    /\ now' = IF out.wrote THEN now + 1 ELSE now
    /\ removed' = IF out.result.ok THEN removed \ {out.result.slug} ELSE removed

\* import_from_github, for import <url> and from update_import
import_from_github(op, arg, url) ==
    \E parsed \in {parse_github_url(url)}, gh \in RouterUpstream :
    \E fetched \in {check_manifest(gh)} :
    \E manifest \in {IF fetched.kind = "found" THEN fetched.manifest
                      ELSE generate_manifest(gh, parsed.owner, parsed.repo, parsed.branch)} :
    \E script \in {generate_install_script(manifest, parsed)} :
        CliDone(import_outcome(CliFiles, op, arg, parsed, fetched, manifest, script))

\* pvescripts-import.sh import <url>
CliImport(url) ==
    /\ app = "router"
    /\ now <= MaxClock
    /\ UNCHANGED <<dashFiles, app, calls>>
    /\ import_from_github("import", "", url)

\* pvescripts-import.sh remove <slug>: remove_import
CliRemove(slug) ==
    LET manifests == Unlink(customJson, slug)
    IN  /\ app = "router"
        /\ now <= MaxClock
        /\ now' = now + 1
        /\ UNCHANGED <<dashFiles, app, calls, removed>>
        /\ customJson' = manifests
        /\ customCt' = Unlink(customCt, slug)
        /\ IF configFile.st = "corrupt"
           THEN \* jq cannot read the registry: the run ends at that line
                /\ mainJson' = Unlink(mainJson, slug)
                /\ UNCHANGED configFile
                /\ last' = Absent(Result("cli", "remove", slug, FALSE, "JQ", slug, "", NoFaultIdx),
                                  customJson, customCt, slug)
           ELSE /\ mainJson' = trigger_rebuild(Unlink(mainJson, slug), manifests)
                /\ configFile' = IF configFile.st = "ok"
                                 THEN [configFile EXCEPT !.imports = filterOut(@, slug)]
                                 ELSE configFile
                /\ last' = Absent(Result("cli", "remove", slug, TRUE, "", slug, "", NoFaultIdx),
                                  customJson, customCt, slug)

\* pvescripts-import.sh update <slug>: update_import
CliUpdate(slug) ==
    LET index == findIndex(configFile.imports, slug)
        entry == configFile.imports[index]
    IN  /\ app = "router"
        /\ now <= MaxClock
        /\ UNCHANGED <<dashFiles, app, calls>>
        /\ IF configFile.st \in {"absent", "empty"}
           THEN CliReject(Result("cli", "update", slug, FALSE, "NOT_FOUND", "", "", NoFaultIdx))
           ELSE IF configFile.st = "corrupt"
           THEN CliReject(Result("cli", "update", slug, FALSE, "JQ", "", "", NoFaultIdx))
           ELSE IF index = 0
           THEN CliReject(Result("cli", "update", slug, FALSE, "NOT_FOUND", "", "", NoFaultIdx))
           ELSE import_from_github("update", slug, entry.source \o "/tree/" \o entry.branch)


\* update_import as a step of a longer run: the record of slug is looked up
\* in the registry as it is then, and its source is imported again
update_import(files, op, arg, slug, gh) ==
    LET index == findIndex(files.configFile.imports, slug)
        entry == files.configFile.imports[index]
        parsed == parse_github_url(entry.source \o "/tree/" \o entry.branch)
        fetched == check_manifest(gh)
        manifest == IF fetched.kind = "found" THEN fetched.manifest
                    ELSE generate_manifest(gh, parsed.owner, parsed.repo, parsed.branch)
    IN  IF files.configFile.st \in {"absent", "empty"} \/ index = 0
        THEN [files |-> files, wrote |-> FALSE,
              result |-> Result("cli", op, arg, FALSE, "NOT_FOUND", "", "", NoFaultIdx)]
        ELSE import_outcome(files, op, arg, parsed, fetched, manifest,
                            generate_install_script(manifest, parsed))

\* for slug in $(jq -r '.imports[].slug' "$CONFIG_FILE"); do update_import
\* "$slug"; done.  A run of update_import that fails ends the whole run, by
\* its exit 1 or by set -e; attempted lists the slugs it was called for.
RECURSIVE update_all(_, _, _, _)
update_all(files, arg, slugs, upstream) ==
    IF slugs = <<>>
    THEN [files |-> files, wrote |-> FALSE, attempted |-> <<>>,
          result |-> Result("cli", "update-all", arg, TRUE, "", "", "", NoFaultIdx)]
    ELSE LET out == update_import(files, "update-all", arg, Head(slugs), Head(upstream))
         IN  IF ~out.result.ok
             THEN [files |-> out.files, wrote |-> out.wrote, attempted |-> <<Head(slugs)>>,
                   result |-> out.result]
             ELSE LET rest == update_all(out.files, arg, Tail(slugs), Tail(upstream))
                  IN  [files |-> rest.files, wrote |-> TRUE,
                       attempted |-> <<Head(slugs)>> \o rest.attempted,
                       result |-> rest.result]

\* the slugs jq prints: none from a file it cannot read
slugList(file) == [i \in 1..Len(file.imports) |-> file.imports[i].slug]

\* declare -A CATEGORIES: the ids that set_category accepts
CATEGORIES ==
    {"1", "2", "3", "4", "5", "6", "7", "8", "9", "10", "11", "12", "13", "14", "15"}

\* the while loop of main up to the command word: --no-rebuild sets
\* SKIP_REBUILD, -c <id> calls set_category, which sets IMPORT_CATEGORY or
\* ends the run; rest is the command word and what follows it
RECURSIVE main_options(_, _, _)
main_options(args, SKIP_REBUILD, IMPORT_CATEGORY) ==
    IF args # <<>> /\ Head(args) = "--no-rebuild"
    THEN main_options(Tail(args), TRUE, IMPORT_CATEGORY)
    ELSE IF args # <<>> /\ Head(args) \in {"-c", "--category"}
    THEN IF Len(args) = 1
         THEN [err |-> "MISSING_CATEGORY", rest |-> <<>>, SKIP_REBUILD |-> SKIP_REBUILD,
               IMPORT_CATEGORY |-> IMPORT_CATEGORY]
         ELSE IF args[2] \notin CATEGORIES
         THEN [err |-> "INVALID_CATEGORY", rest |-> <<>>, SKIP_REBUILD |-> SKIP_REBUILD,
               IMPORT_CATEGORY |-> IMPORT_CATEGORY]
         ELSE main_options(Tail(Tail(args)), SKIP_REBUILD, args[2])
    ELSE [err |-> "", rest |-> args, SKIP_REBUILD |-> SKIP_REBUILD,
          IMPORT_CATEGORY |-> IMPORT_CATEGORY]

\* the command line as it was typed
RECURSIVE CommandLine(_)
CommandLine(args) ==
    IF args = <<>> THEN ""
    ELSE IF Len(args) = 1 THEN Head(args)
    ELSE Head(args) \o " " \o CommandLine(Tail(args))

\* pvescripts-import.sh update-all
CliUpdateAll(arg) ==
    \E upstream \in [1..Len(configFile.imports) -> RouterUpstream] :
    \E out \in {update_all(CliFiles, arg, slugList(configFile), upstream)} :
        CliDone([out EXCEPT !.result.entries = out.attempted])

\* pvescripts-import.sh <args>: main, for the commands import and
\* update-all.  Neither SKIP_REBUILD nor IMPORT_CATEGORY is read after the
\* loop has set it.
CliMain(args) ==
    /\ app = "router"
    /\ now <= MaxClock
    /\ UNCHANGED <<dashFiles, app, calls>>
    /\ \E options \in {main_options(args, FALSE, "")} :
          IF options.err # ""
          THEN CliReject(Result("cli", "main", CommandLine(args), FALSE, options.err,
                                "", "", NoFaultIdx))
          ELSE IF options.rest = <<>>
          THEN CliReject(Result("cli", "main", CommandLine(args), TRUE, "", "", "", NoFaultIdx))
          ELSE IF Head(options.rest) = "import"
          THEN IF Len(options.rest) = 1
               THEN CliReject(Result("cli", "import", CommandLine(args), FALSE, "MISSING_URL",
                                     "", "", NoFaultIdx))
               ELSE import_from_github("import", CommandLine(args), options.rest[2])
          ELSE IF Head(options.rest) = "update-all"
          THEN CliUpdateAll(CommandLine(args))
          ELSE CliReject(Result("cli", "main", CommandLine(args), FALSE, "UNKNOWN_COMMAND",
                                "", "", NoFaultIdx))
-----------------------------------------------------------------------------
(* Web dashboard: the integration library (lib/pvescripts).                *)

NoImportsFile == [st |-> "absent", imports |-> <<>>]
CorruptImportsFile == [st |-> "corrupt", imports |-> <<>>]
ImportsDoc(imports) == [st |-> "ok", imports |-> imports]

\* loadImports: the records of the file, none when it cannot be read or parsed
loadImports(file) == IF file.st = "ok" THEN file.imports ELSE <<>>

\* saveImports as step i of a request
saveImports(file, imports, i, fault) ==
    IF fault.idx > i THEN ImportsDoc(imports)
    ELSE IF fault.idx = i /\ fault.partial THEN CorruptImportsFile
    ELSE file

\* addImport
addImport(file, record, i, fault) == saveImports(file, upsert(loadImports(file), record), i, fault)

\* removeImport: nothing is written when no record has the slug
removeImport(file, slug, i, fault) ==
    LET imports == loadImports(file)
        filtered == filterOut(imports, slug)
    IN  IF Len(filtered) = Len(imports) THEN file
        ELSE saveImports(file, filtered, i, fault)

\* getImportBySlug: found = FALSE stands for null
getImportBySlug(file, slug) ==
    LET imports == loadImports(file)
        index == findIndex(imports, slug)
    IN  IF index = 0 THEN [found |-> FALSE, record |-> CorruptJson]
        ELSE [found |-> TRUE, record |-> imports[index]]

\* detectProjectType of the library: names are compared in lower case
dashboardDetectProjectType(repoFiles) ==
    LET fileSet == {toLowerCase(f) : f \in repoFiles}
    IN  IF "package.json" \in fileSet THEN [type |-> "nodejs", port |-> 3000]
        ELSE IF \/ "requirements.txt" \in fileSet
                \/ "pyproject.toml" \in fileSet
                \/ "setup.py" \in fileSet
             THEN [type |-> "python", port |-> 8000]
        ELSE IF \/ "docker-compose.yml" \in fileSet
                \/ "docker-compose.yaml" \in fileSet
                \/ "dockerfile" \in fileSet
             THEN [type |-> "docker", port |-> NoPort]
        ELSE IF "go.mod" \in fileSet THEN [type |-> "golang", port |-> 8080]
        ELSE IF "cargo.toml" \in fileSet THEN [type |-> "rust", port |-> 8080]
        ELSE [type |-> "generic", port |-> NoPort]

\* String(port) for the ports detectProjectType yields
portText(port) ==
    CASE port = 3000 -> "3000"
      [] port = 8000 -> "8000"
      [] port = 8080 -> "8080"
      [] OTHER -> ""

baseScript(name, slug, repoUrl) ==
       "#!/usr/bin/env bash\n"
    \o "\n"
    \o "# "
    \o name
    \o " Installation Script\n"
    \o "# Generated by PVEScriptsLocal Customiser\n"
    \o "# Source: "
    \o repoUrl
    \o "\n"
    \o "\n"
    \o "set -euo pipefail\n"
    \o "\n"
    \o "# Color codes\n"
    \o "YW=\"e[33m\"\n"
    \o "GN=\"e[32m\"\n"
    \o "RD=\"e[31m\"\n"
    \o "CL=\"e[0m\"\n"
    \o "\n"
    \o "msg_info() { echo -e \"${YW}[INFO]${CL} $1\"; }\n"
    \o "msg_ok() { echo -e \"${GN}[SUCCESS]${CL} $1\"; }\n"
    \o "msg_error() { echo -e \"${RD}[ERROR]${CL} $1\"; }\n"
    \o "\n"
    \o "APP_NAME=\""
    \o name
    \o "\"\n"
    \o "APP_DIR=\"/opt/"
    \o slug
    \o "\"\n"
    \o "REPO_URL=\""
    \o repoUrl
    \o "\"\n"
    \o "\n"
    \o "msg_info \"Installing ${APP_NAME}...\"\n"
    \o "\n"
    \o "# Create app directory\n"
    \o "mkdir -p \"${APP_DIR}\"\n"
    \o "cd \"${APP_DIR}\"\n"
    \o "\n"
    \o "# Clone repository\n"
    \o "if command -v git &>/dev/null; then\n"
    \o "  git clone \"${REPO_URL}\" . || git pull\n"
    \o "else\n"
    \o "  msg_error \"Git not found. Please install git.\"\n"
    \o "  exit 1\n"
    \o "fi\n"
    \o "\n"

NodejsInstall(slug, portLine) ==
       "\n"
    \o "# Install Node.js dependencies\n"
    \o "if command -v npm &>/dev/null; then\n"
    \o "  npm install --production\n"
    \o "  npm run build 2>/dev/null || true\n"
    \o "else\n"
    \o "  msg_error \"npm not found. Please install Node.js.\"\n"
    \o "  exit 1\n"
    \o "fi\n"
    \o "\n"
    \o "# Create systemd service\n"
    \o "cat > /etc/systemd/system/"
    \o slug
    \o ".service << 'EOF'\n"
    \o "[Unit]\n"
    \o "Description="
    \o slug
    \o "\n"
    \o "After=network.target\n"
    \o "\n"
    \o "[Service]\n"
    \o "Type=simple\n"
    \o "WorkingDirectory=/opt/"
    \o slug
    \o "\n"
    \o "ExecStart=/usr/bin/npm start\n"
    \o "Restart=always\n"
    \o "User=root\n"
    \o "\n"
    \o "[Install]\n"
    \o "WantedBy=multi-user.target\n"
    \o "EOF\n"
    \o "\n"
    \o "systemctl daemon-reload\n"
    \o "systemctl enable "
    \o slug
    \o "\n"
    \o "systemctl start "
    \o slug
    \o "\n"
    \o "\n"
    \o "msg_ok \""
    \o slug
    \o " installed successfully!\"\n"
    \o portLine
    \o "\n"

PythonInstall(slug, portLine) ==
       "\n"
    \o "# Install Python dependencies\n"
    \o "if command -v python3 &>/dev/null; then\n"
    \o "  python3 -m venv venv\n"
    \o "  source venv/bin/activate\n"
    \o "  pip install -r requirements.txt 2>/dev/null || pip install .\n"
    \o "else\n"
    \o "  msg_error \"Python3 not found. Please install Python.\"\n"
    \o "  exit 1\n"
    \o "fi\n"
    \o "\n"
    \o "# Create systemd service\n"
    \o "cat > /etc/systemd/system/"
    \o slug
    \o ".service << 'EOF'\n"
    \o "[Unit]\n"
    \o "Description="
    \o slug
    \o "\n"
    \o "After=network.target\n"
    \o "\n"
    \o "[Service]\n"
    \o "Type=simple\n"
    \o "WorkingDirectory=/opt/"
    \o slug
    \o "\n"
    \o "ExecStart=/opt/"
    \o slug
    \o "/venv/bin/python -m "
    \o slug
    \o "\n"
    \o "Restart=always\n"
    \o "User=root\n"
    \o "\n"
    \o "[Install]\n"
    \o "WantedBy=multi-user.target\n"
    \o "EOF\n"
    \o "\n"
    \o "systemctl daemon-reload\n"
    \o "systemctl enable "
    \o slug
    \o "\n"
    \o "systemctl start "
    \o slug
    \o "\n"
    \o "\n"
    \o "msg_ok \""
    \o slug
    \o " installed successfully!\"\n"
    \o portLine
    \o "\n"

DockerInstall(slug) ==
       "\n"
    \o "# Start with Docker Compose\n"
    \o "if command -v docker &>/dev/null; then\n"
    \o "  docker compose up -d\n"
    \o "else\n"
    \o "  msg_error \"Docker not found. Please install Docker.\"\n"
    \o "  exit 1\n"
    \o "fi\n"
    \o "\n"
    \o "msg_ok \""
    \o slug
    \o " installed successfully!\"\n"
    \o "msg_info \"Container started with docker compose\"\n"

DefaultInstall(slug) ==
       "\n"
    \o "msg_ok \""
    \o slug
    \o " cloned successfully!\"\n"
    \o "msg_info \"Please check the repository README for additional setup instructions.\"\n"

\* ${port ? `msg_info "Application available on port ${port}"` : ''}
portLine(port) ==
    IF port # NoPort
    THEN "msg_info \"Application available on port " \o portText(port) \o "\""
    ELSE ""

getTypeSpecificInstall(projectType, port, slug) ==
    CASE projectType = "nodejs" -> NodejsInstall(slug, portLine(port))
      [] projectType = "python" -> PythonInstall(slug, portLine(port))
      [] projectType = "docker" -> DockerInstall(slug)
      [] OTHER -> DefaultInstall(slug)

\* generateInstallScript of the library
dashboardGenerateInstallScript(name, slug, projectType, repoUrl, port) ==
    baseScript(name, slug, repoUrl) \o getTypeSpecificInstall(projectType, port, slug)

-----------------------------------------------------------------------------
(* Web dashboard: the routes.                                              *)

\* the repository's files as the routes list them: contentsResponse.ok, then
\* detectProjectType, else generic
dashboardProjectType(gh, ref) ==
    LET contents == Contents(gh, ref)
    IN  IF contents.ok THEN dashboardDetectProjectType(contents.files)
        ELSE [type |-> "generic", port |-> NoPort]

\* the manifest both routes build; note is the text of its one note
dashboardManifest(name, slug, categoryId, projectType, gh, note) ==
    [valid |-> TRUE,
     name |-> name,
     slug |-> slug,
     categories |-> <<categoryId>>,
     interface_port |-> projectType.port,
     documentation |-> html_url(gh),
     description |-> OrStr(gh.description, name \o " from GitHub"),
     script |-> slug \o "-install.sh",
     resources |-> [cpu |-> 1, ram |-> 1024, hdd |-> 4, os |-> "debian", version |-> 12],
     notes |-> note \o html_url(gh)]

\* the record POST /api/import/github stores
importRecordOf(slug, name, gh, date) ==
    [slug |-> slug, name |-> name, source |-> html_url(gh),
     sourceType |-> "github", importedAt |-> date,
     category |-> "Custom", categoryId |-> 14]

\* a request of the dashboard that ends before it writes anything
DashReject(result) ==
    /\ last' = result
    /\ UNCHANGED <<dashFiles, now>>

\* the writes both routes end with: writeManifest, writeInstallScript, addImport
DashWrite(op, arg, manifest, installScript, record, ref, fault) ==
    LET slug == manifest.slug
    IN  /\ jsonDir' = WriteFile(jsonDir, slug, manifest, CorruptJson, StepManifest, fault)
        /\ installDir' = WriteFile(installDir, slug,
                                   ScriptFile(installDir, slug, installScript, Mode755),
                                   ScriptFile(installDir, slug, "", Mode755),
                                   StepScript, fault)
        /\ importsFile' = addImport(importsFile, record, StepRegistry, fault)
        /\ UNCHANGED credentialsFile
        /\ now' = now + 1
        /\ last' = IF fault = NoFault
                   THEN Result("dash", op, arg, TRUE, "", slug, ref, NoFaultIdx)
                   ELSE Result("dash", op, arg, FALSE, "500", slug, ref, fault.idx)

\* POST /api/import/github
DashImportFrom(url, bodyName, upstream) ==
    \E parsed \in {dashboardParseGitHubUrl(url)} :
        /\ app = "dashboard"
        /\ now <= MaxClock
        /\ UNCHANGED <<trpcFiles, app, calls, removed>>
        /\ IF ~parsed.ok
           THEN DashReject(Result("dash", "import", "", FALSE, "400", "", "", NoFaultIdx))
           ELSE \E gh \in upstream :
                \E slug \in {slugify(OrStr(bodyName, OrStr(gh.name, parsed.repo)))} :
                LET projectType == dashboardProjectType(gh, parsed.branch)
                    name == OrStr(bodyName, OrStr(gh.name, parsed.repo))
                    manifest == dashboardManifest(name, slug, 14, projectType, gh,
                                                  "Imported from GitHub: ")
                    installScript == dashboardGenerateInstallScript(
                                         name, slug, projectType.type, clone_url(gh),
                                         projectType.port)
                    record == importRecordOf(slug, name, gh, now)
                    applied == authApplied(credentialsFile, url)
                IN  IF gh.status \in {401, 403}
                    THEN DashReject([Result("dash", "import", "", FALSE, "401", "", "",
                                           NoFaultIdx)
                                       EXCEPT !.status = gh.status, !.auth = applied])
                    ELSE IF gh.status # 200
                    THEN DashReject([Result("dash", "import", "", FALSE, "404", "", "",
                                           NoFaultIdx)
                                       EXCEPT !.status = gh.status, !.auth = applied])
                    ELSE \E fault \in Faults({}, {StepManifest, StepScript, StepRegistry}, {}) :
                             DashWrite("import", "", manifest, installScript, record,
                                       parsed.branch, fault)

DashImport(url, bodyName) == DashImportFrom(url, bodyName, DashboardUpstream)

\* POST /api/imports/[slug]/update, for a record whose sourceType is github
DashUpdate(slug) ==
    LET got == getImportBySlug(importsFile, slug)
    IN  /\ app = "dashboard"
        /\ now <= MaxClock
        /\ UNCHANGED <<trpcFiles, app, calls, removed>>
        /\ IF ~got.found
           THEN DashReject(Result("dash", "update", slug, FALSE, "404", "", "", NoFaultIdx))
           ELSE IF ~sourceMatch(got.record.source).ok
           THEN DashReject(Result("dash", "update", slug, FALSE, "400", "", "", NoFaultIdx))
           ELSE \E gh \in DashboardUpstream :
                LET importRecord == got.record
                    projectType == dashboardProjectType(gh, NoRef)
                    manifest == dashboardManifest(importRecord.name, slug, 14, projectType, gh,
                                                  "Updated from GitHub: ")
                    installScript == dashboardGenerateInstallScript(
                                         importRecord.name, slug, projectType.type,
                                         clone_url(gh), projectType.port)
                    record == [importRecord EXCEPT !.importedAt = now]
                IN  IF gh.status # 200
                    THEN DashReject(Result("dash", "update", slug, FALSE, "404", "", "", NoFaultIdx))
                    ELSE \E fault \in Faults({}, {StepManifest, StepScript, StepRegistry}, {}) :
                             DashWrite("update", slug, manifest, installScript, record,
                                       NoRef, fault)

\* DELETE /api/imports/[slug]
DashDelete(slug) ==
    LET got == getImportBySlug(importsFile, slug)
    IN  /\ app = "dashboard"
        /\ now <= MaxClock
        /\ UNCHANGED <<trpcFiles, app, calls, removed>>
        /\ IF ~got.found
           THEN /\ last' = Result("dash", "remove", slug, FALSE, "404", "", "", NoFaultIdx)
                /\ UNCHANGED <<dashFiles, now>>
           ELSE \E fault \in Faults({}, {StepRegistry}, {}) :
                /\ jsonDir' = Unlink(jsonDir, slug)
                /\ installDir' = Unlink(installDir, slug)
                /\ importsFile' = removeImport(importsFile, slug, StepRegistry, fault)
                /\ UNCHANGED credentialsFile
                /\ now' = now + 1
                /\ last' = Absent(IF fault = NoFault
                                  THEN Result("dash", "remove", slug, TRUE, "", slug, "", NoFaultIdx)
                                  ELSE Result("dash", "remove", slug, FALSE, "500", slug, "",
                                              fault.idx),
                                  jsonDir, installDir, slug)

-----------------------------------------------------------------------------
(* The requests.                                                           *)

\* The installation is fresh, or already holds the import of branch dev of
\* the repository, made at date 0 by a request that met no refusal.
EarlierManifest == resolveManifest(Repository(200, "main", NoProbes), "o", "A", "dev", NoCustom)

EarlierProjectType == dashboardProjectType(Repository(200, "main", NoProbes), "dev")

EarlierDashboardManifest ==
    dashboardManifest("a", "a", 14, EarlierProjectType,
                      Repository(200, "main", NoProbes), "Imported from GitHub: ")

Fresh ==
    /\ configFile = NoConfigFile
    /\ customJson = EmptyDir
    /\ customCt = EmptyDir
    /\ mainJson = EmptyDir
    /\ importsFile = NoImportsFile
    /\ jsonDir = EmptyDir
    /\ installDir = EmptyDir
    /\ credentialsFile = NoCredentialsFile
    /\ calls = NoCalls

RouterInUse ==
    /\ app = "router"
    /\ configFile = ConfigDoc(<<importEntry(EarlierManifest, "o", "A", "dev", 0)>>, 0)
    /\ customJson = Put(EmptyDir, "a", EarlierManifest)
    /\ customCt = Put(EmptyDir, "a",
                      ScriptFile(EmptyDir, "a", generateInstallScript(EarlierManifest), Mode755))
    /\ mainJson = Put(EmptyDir, "a", EarlierManifest)
    /\ importsFile = NoImportsFile
    /\ jsonDir = EmptyDir
    /\ installDir = EmptyDir
    /\ credentialsFile = NoCredentialsFile
    /\ calls = NoCalls

DashboardInUse ==
    /\ app = "dashboard"
    /\ configFile = NoConfigFile
    /\ customJson = EmptyDir
    /\ customCt = EmptyDir
    /\ mainJson = EmptyDir
    /\ importsFile = ImportsDoc(<<importRecordOf("a", "a", Repository(200, "main", NoProbes), 0)>>)
    /\ jsonDir = Put(EmptyDir, "a", EarlierDashboardManifest)
    /\ installDir = Put(EmptyDir, "a",
                        ScriptFile(EmptyDir, "a",
                                   dashboardGenerateInstallScript(
                                       "a", "a", EarlierProjectType.type,
                                       clone_url(Repository(200, "main", NoProbes)),
                                       EarlierProjectType.port),
                                   Mode755))
    /\ credentialsFile = NoCredentialsFile
    /\ calls = NoCalls

Init ==
    /\ app \in {"router", "dashboard"}
    /\ Fresh \/ RouterInUse \/ DashboardInUse
    /\ now = 1
    /\ last = NoRequest
    /\ removed = {}

TrpcImportStep == \E url \in Urls : TrpcImport(url, NoCustom)
TrpcGetStep == \E slug \in SlugInputs : TrpcGet(slug)
TrpcListStep == TrpcList
TrpcRemoveStep == \E slug \in SlugInputs : TrpcRemove(slug)
TrpcUpdateStep == \E slug \in SlugInputs : TrpcUpdate(slug)
TrpcPreviewStep == \E url \in Urls : TrpcPreview(url)
CliImportStep == \E url \in Urls : CliImport(url)
CliRemoveStep == \E slug \in SlugInputs : CliRemove(slug)
CliUpdateStep == \E slug \in SlugInputs : CliUpdate(slug)
DashImportStep == \E url \in Urls, bodyName \in BodyNames : DashImport(url, bodyName)
DashUpdateStep == \E slug \in SlugInputs : DashUpdate(slug)
DashDeleteStep == \E slug \in SlugInputs : DashDelete(slug)

Next ==
    \/ TrpcImportStep
    \/ TrpcGetStep
    \/ TrpcListStep
    \/ TrpcRemoveStep
    \/ TrpcUpdateStep
    \/ TrpcPreviewStep
    \/ CliImportStep
    \/ CliRemoveStep
    \/ CliUpdateStep
    \/ DashImportStep
    \/ DashUpdateStep
    \/ DashDeleteStep

Spec == Init /\ [][Next]_vars

TypeOK == now \in 1..(MaxClock + 1)
-----------------------------------------------------------------------------
(* The functions the requests are made of, applied on their own: an input  *)
(* is drawn, and one implementation is applied to it.  No file is touched. *)

Library ==
    /\ Fresh
    /\ app = "library"
    /\ now = 1
    /\ removed = {}

LibraryUnchanged == UNCHANGED <<trpcFiles, dashFiles, app, calls, now, removed>>

\* an input of this kind was drawn and nothing has been applied to it yet
Pending(op) == last.op = op /\ last.impl = ""

(* URL parsing.                                                            *)

UrlOwners == {"o", "my-org"}
UrlRepos == {"a", "My.Repo", "my.gitrepo", "a_b"}
GitSuffixes == {"", ".git"}
\* no /tree/ part, or the branch it names
UrlBranches == {"", "dev", "feature/x", "release/v1/rc"}

GitHubUrl(owner, repo, suffix, branch) ==
    "https://github.com/" \o owner \o "/" \o repo \o suffix
        \o (IF branch = "" THEN "" ELSE "/tree/" \o branch)

UrlInit ==
    /\ Library
    /\ \E owner \in UrlOwners, repo \in UrlRepos, suffix \in GitSuffixes, branch \in UrlBranches :
          last = [impl |-> "", op |-> "url", owner |-> owner, repo |-> repo,
                  suffix |-> suffix, branch |-> branch,
                  arg |-> GitHubUrl(owner, repo, suffix, branch),
                  out |-> [ok |-> FALSE, owner |-> "", repo |-> "", branch |-> ""]]

TrpcParse ==
    /\ Pending("url")
    /\ last' = [last EXCEPT !.impl = "trpc", !.out = parseGitHubUrl(last.arg)]
    /\ LibraryUnchanged

DashParse ==
    /\ Pending("url")
    /\ last' = [last EXCEPT !.impl = "dash", !.out = dashboardParseGitHubUrl(last.arg)]
    /\ LibraryUnchanged

CliParse ==
    /\ Pending("url")
    /\ last' = [last EXCEPT !.impl = "cli", !.out = parse_github_url(last.arg)]
    /\ LibraryUnchanged

UrlNext == TrpcParse \/ DashParse \/ CliParse

UrlSpec == UrlInit /\ [][UrlNext]_vars

(* Manifest resolution.                                                    *)

\* the manifest kept at location i of the repository
ManifestAt(i) == [UpstreamManifest EXCEPT !.name = locations[i]]

\* what a probe of location i can meet
ProbesAt(i) ==
    {ProbeMissing, ProbeError, ProbeNoDownload, ProbeBadJson, ProbeFound(ManifestAt(i))}

\* customName, customDescription and customResources, each absent or given
CustomNames == {"", "Mine"}
CustomDescriptions == {"", "my own"}
CustomResources ==
    {NoResources,
     [given |-> TRUE, cpu |-> 4, ram |-> 0, hdd |-> 0, os |-> "", version |-> ""],
     [given |-> TRUE, cpu |-> 0, ram |-> 4096, hdd |-> 20, os |-> "ubuntu", version |-> "24.04"]}

ManifestInit ==
    /\ Library
    /\ \E p1 \in ProbesAt(1), p2 \in ProbesAt(2), p3 \in ProbesAt(3), p4 \in ProbesAt(4),
          name \in CustomNames, description \in CustomDescriptions,
          resources \in CustomResources :
          last = [impl |-> "", op |-> "resolve",
                  gh |-> Repository(200, "main", <<p1, p2, p3, p4>>),
                  custom |-> [name |-> name, description |-> description,
                              resources |-> resources],
                  out |-> [ok |-> FALSE, found |-> FALSE, manifest |-> CorruptJson]]

\* lines 441-456 of the router's import
RouterResolve ==
    /\ Pending("resolve")
    /\ last' = [last EXCEPT
                   !.impl = "trpc",
                   !.out = [ok |-> TRUE,
                            found |-> checkForManifest(last.gh).found,
                            manifest |-> resolveManifest(last.gh, "o", "a", "main",
                                                         last.custom)]]
    /\ LibraryUnchanged

\* lines 701-704 of the CLI's import_from_github, which takes no options;
\* the run ends at the first jq that reads a download that is no JSON
CliResolve ==
    /\ Pending("resolve")
    /\ last.custom = NoCustom
    /\ \E fetched \in {check_manifest(last.gh)} :
          last' = [last EXCEPT
                      !.impl = "cli",
                      !.out = [ok |-> fetched.kind \notin {"badjson", "nodownload"},
                               found |-> fetched.kind # "missing",
                               manifest |-> IF fetched.kind # "missing"
                                            THEN fetched.manifest
                                            ELSE generate_manifest(last.gh, "o", "a", "main")]]
    /\ LibraryUnchanged

ManifestNext == RouterResolve \/ CliResolve

ManifestSpec == ManifestInit /\ [][ManifestNext]_vars

(* Project type, default resources and install script.                     *)

\* the marker files the root of a repository can hold
Markers ==
    {"package.json", "requirements.txt", "pyproject.toml", "Dockerfile",
     "docker-compose.yml", "go.mod", "Cargo.toml"}

\* the repository whose root holds these files on every branch
Listing(files) ==
    [Repository(200, "main", NoProbes) EXCEPT !.tree = [b \in Branches |-> files]]

TypeInit ==
    /\ Library
    /\ \E files \in SUBSET Markers :
          last = [impl |-> "", op |-> "detect", files |-> files,
                  out |-> [type |-> "", resources |-> NoResources, script |-> ""]]

\* detectProjectType, generateManifest and generateInstallScript of the router
TrpcDetect ==
    /\ Pending("detect")
    /\ \E manifest \in {generateManifest(Listing(last.files), "o", "a", "main", NoCustom)} :
          last' = [last EXCEPT
                      !.impl = "trpc",
                      !.out = [type |-> detectProjectType(Listing(last.files), "main"),
                               resources |-> manifest.resources,
                               script |-> generateInstallScript(manifest)]]
    /\ LibraryUnchanged

\* detectProjectType and generateInstallScript of the dashboard's library,
\* and the manifest of its import route
DashDetect ==
    /\ Pending("detect")
    /\ \E projectType \in {dashboardDetectProjectType(last.files)} :
          last' = [last EXCEPT
                      !.impl = "dash",
                      !.out = [type |-> projectType.type,
                               resources |-> dashboardManifest("a", "a", 14, projectType,
                                                               Listing(last.files), "").resources,
                               script |-> dashboardGenerateInstallScript(
                                              "a", "a", projectType.type,
                                              clone_url(Listing(last.files)),
                                              projectType.port)]]
    /\ LibraryUnchanged

\* generate_manifest and generate_install_script of the CLI
CliDetect ==
    /\ Pending("detect")
    /\ \E manifest \in {generate_manifest(Listing(last.files), "o", "a", "main")} :
          last' = [last EXCEPT
                      !.impl = "cli",
                      !.out = [type |-> manifest.source.project_type,
                               resources |-> manifest.resources,
                               script |-> generate_install_script(
                                              manifest,
                                              [ok |-> TRUE, owner |-> "o", repo |-> "a",
                                               branch |-> "main"]).text]]
    /\ LibraryUnchanged

TypeNext == TrpcDetect \/ DashDetect \/ CliDetect

TypeSpec == TypeInit /\ [][TypeNext]_vars

(* Slugs.                                                                  *)

\* names are made of a head, a separator and a tail; the long heads bring
\* the separator to the place where slugify cuts
NameHeads ==
    {"", "My",
     "aaaaaaaaaaaaaaaaaaaaaaaaaaaaaaaaaaaaaaaaaaaaaaaa",
     "aaaaaaaaaaaaaaaaaaaaaaaaaaaaaaaaaaaaaaaaaaaaaaaaa",
     "aaaaaaaaaaaaaaaaaaaaaaaaaaaaaaaaaaaaaaaaaaaaaaaaaa"}
NameSeparators == {"", " ", "-", "_", "  ", " - ", "."}
NameTails == {"", "b", "App 2", "x.y"}

SlugInit ==
    /\ Library
    /\ \E head \in NameHeads, separator \in NameSeparators, tail \in NameTails :
          last = [impl |-> "", op |-> "slug", arg |-> head \o separator \o tail,
                  out |-> [once |-> "", twice |-> ""]]

\* slugify of the dashboard's library
DashSlugify ==
    /\ Pending("slug")
    /\ last' = [last EXCEPT !.impl = "dash",
                            !.out = [once |-> slugify(last.arg),
                                     twice |-> slugify(slugify(last.arg))]]
    /\ LibraryUnchanged

\* the slug of generateManifest of the router
TrpcSlugify ==
    /\ Pending("slug")
    /\ last' = [last EXCEPT !.impl = "trpc",
                            !.out = [once |-> repoSlug(last.arg),
                                     twice |-> repoSlug(repoSlug(last.arg))]]
    /\ LibraryUnchanged

\* the slug of generate_manifest of the CLI
CliSlugify ==
    /\ Pending("slug")
    /\ last' = [last EXCEPT !.impl = "cli",
                            !.out = [once |-> cliSlug(last.arg),
                                     twice |-> cliSlug(cliSlug(last.arg))]]
    /\ LibraryUnchanged

SlugNext == DashSlugify \/ TrpcSlugify \/ CliSlugify

SlugSpec == SlugInit /\ [][SlugNext]_vars

-----------------------------------------------------------------------------
(* Imports of a repository whose metadata call can be refused, on an       *)
(* installation that may hold a credential for github.com.                 *)

\* what the metadata call can answer
AuthStatuses == {200, 401, 403, 404, 500}
AuthUpstream == {Repository(status, "main", NoProbes) : status \in AuthStatuses}

GithubCredential(authType, token) ==
    [id |-> 0, name |-> "gh", provider |-> "github", baseUrl |-> "",
     authType |-> authType, username |-> "", token |-> token,
     createdAt |-> 0, updatedAt |-> 0]

\* no credential, one that yields a header, one that yields none
AuthStores ==
    {NoCredentialsFile,
     CredentialsDoc(<<GithubCredential("token", "t1")>>),
     CredentialsDoc(<<GithubCredential("ssh", "")>>)}

AuthInit ==
    /\ app \in {"router", "dashboard"}
    /\ configFile = NoConfigFile
    /\ customJson = EmptyDir
    /\ customCt = EmptyDir
    /\ mainJson = EmptyDir
    /\ importsFile = NoImportsFile
    /\ jsonDir = EmptyDir
    /\ installDir = EmptyDir
    /\ credentialsFile \in AuthStores
    /\ calls = NoCalls
    /\ now = 1
    /\ last = NoRequest
    /\ removed = {}

AuthTrpcImport == TrpcImportFrom("https://github.com/o/a", NoCustom, AuthUpstream)
AuthDashImport == \E bodyName \in BodyNames :
                      DashImportFrom("https://github.com/o/a", bodyName, AuthUpstream)

AuthNext == AuthTrpcImport \/ AuthDashImport

AuthSpec == AuthInit /\ [][AuthNext]_vars

-----------------------------------------------------------------------------
(* The credentials API and the lookup of a credential for a URL.  The id   *)
(* of a new credential, eight random bytes, is modelled by the clock,      *)
(* which is different at every creation.                                   *)

\* bodies of POST: complete ones, and ones the validation turns down
CredBodies ==
    {[name |-> "n", provider |-> provider, baseUrl |-> baseUrl, authType |-> auth[1],
      username |-> "", token |-> auth[2]] :
        provider \in {"github", "custom"}, baseUrl \in {"", "github.com/o"},
        auth \in {<<"token", "t1">>, <<"ssh", "">>, <<"token", "">>}}

\* bodies of PUT: a new name or not, a new token or not
PutBodies ==
    {[name |-> name, provider |-> "", baseUrl |-> "", authType |-> "", username |-> "",
      token |-> token] : name \in {"", "renamed"}, token \in {"", "t9"}}

CredIds == 1..MaxClock
LookupUrls == {"https://github.com/o/a", "https://gitlab.com/o/a"}

\* the same store with every token that is not empty replaced by another one
Retoken(credentials) ==
    [i \in 1..Len(credentials) |->
        IF credentials[i].token # ""
        THEN [credentials[i] EXCEPT !.token = @ \o "*"]
        ELSE credentials[i]]

\* what the last request was, the store it found, its response, and the
\* response the same request gets from the store with other tokens
Answered(op, id, body, before, response, twin) ==
    [impl |-> "dash", op |-> op, id |-> id, body |-> body, before |-> before,
     response |-> response, twin |-> twin]

CredUnchanged == UNCHANGED <<trpcFiles, importsFile, jsonDir, installDir, app, calls, removed>>

CredInit == Library /\ last = Answered("", 0, "", <<>>, <<>>, <<>>)

CredList ==
    /\ \E credentials \in {loadCredentials(credentialsFile)} :
          last' = Answered("list", 0, "", credentials, listResponse(credentials),
                           listResponse(Retoken(credentials)))
    /\ UNCHANGED <<credentialsFile, now>>
    /\ CredUnchanged

CredGet ==
    /\ \E id \in CredIds, credentials \in {loadCredentials(credentialsFile)} :
          last' = Answered("get", id, "", credentials, getResponse(credentials, id),
                           getResponse(Retoken(credentials), id))
    /\ UNCHANGED <<credentialsFile, now>>
    /\ CredUnchanged

CredCreate ==
    /\ now <= MaxClock
    /\ \E body \in CredBodies, credentials \in {loadCredentials(credentialsFile)} :
       \E posted \in {postCredential(credentials, body, now, now)} :
          /\ last' = Answered("create", now, body, credentials, posted.response,
                              postCredential(Retoken(credentials), body, now, now).response)
          /\ IF posted.response.status = 200
             THEN credentialsFile' = saveCredentials(posted.credentials) /\ now' = now + 1
             ELSE UNCHANGED <<credentialsFile, now>>
    /\ CredUnchanged

CredUpdate ==
    /\ now <= MaxClock
    /\ \E id \in CredIds, body \in PutBodies, credentials \in {loadCredentials(credentialsFile)} :
       \E put \in {putCredential(credentials, id, body, now)} :
          /\ last' = Answered("update", id, body, credentials, put.response,
                              putCredential(Retoken(credentials), id, body, now).response)
          /\ IF put.response.status = 200
             THEN credentialsFile' = saveCredentials(put.credentials) /\ now' = now + 1
             ELSE UNCHANGED <<credentialsFile, now>>
    /\ CredUnchanged

CredDelete ==
    /\ now <= MaxClock
    /\ \E id \in CredIds, credentials \in {loadCredentials(credentialsFile)} :
       \E filtered \in {deleteCredential(credentials, id)} :
          /\ last' = Answered("delete", id, "", credentials,
                              [status |-> IF Len(filtered) = Len(credentials) THEN 404 ELSE 200,
                               data |-> <<>>],
                              <<>>)
          /\ IF Len(filtered) # Len(credentials)
             THEN credentialsFile' = saveCredentials(filtered) /\ now' = now + 1
             ELSE UNCHANGED <<credentialsFile, now>>
    /\ CredUnchanged

\* getCredentialForUrl, as the import route calls it
CredLookup ==
    /\ \E url \in LookupUrls, credentials \in {loadCredentials(credentialsFile)} :
          last' = Answered("lookup", getCredentialForUrl(credentials, url), url, credentials,
                           <<>>, <<>>)
    /\ UNCHANGED <<credentialsFile, now>>
    /\ CredUnchanged

CredNext == CredList \/ CredGet \/ CredCreate \/ CredUpdate \/ CredDelete \/ CredLookup

CredSpec == CredInit /\ [][CredNext]_vars

-----------------------------------------------------------------------------
(* The command line of the CLI, on the files it shares with the router.    *)

CliUrl == "https://github.com/o/a"

CommandLines ==
    { <<"import", CliUrl>>,
      <<"import", "-c", "8", CliUrl>>,
      <<"-c", "8", "import", CliUrl>>,
      <<"-c", "99", "import", CliUrl>>,
      <<"import", "--no-rebuild", CliUrl>>,
      <<"--no-rebuild", "import", CliUrl>>,
      <<"update-all">>,
      <<"--no-rebuild", "update-all">>,
      <<"upgrade">> }

CliInit ==
    /\ app = "router"
    /\ Fresh \/ RouterInUse
    /\ now = 1
    /\ last = NoRequest
    /\ removed = {}

CliMainStep == \E args \in CommandLines : CliMain(args)

CliNext == CliMainStep \/ TrpcImportStep

CliSpec == CliInit /\ [][CliNext]_vars

-----------------------------------------------------------------------------
(* Requests served at the same time.  A handler runs from one await to the *)
(* next; between the resolution of its registry read and the completion of *)
(* its registry write the reads and writes of other requests take place.   *)
(* An import or an update is split at those two points; remove and delete  *)
(* are served in one piece, between the steps of the others.               *)

CallIds == {1, 2}

RaceUrl == "https://github.com/o/a"

\* the repository, without a manifest of its own or with one
RaceUpstream ==
    { Repository(200, "main", NoProbes), Repository(200, "main", UpstreamProbes) }

\* a request in flight: what it read from the registry (read), the record
\* it is about to store (entry), how far it got (stage: "got" after
\* getImportBySlug, "read" after the read its write is computed from,
\* "done" once it returned), and the requests it ran alongside (met)
Call(impl, op, arg, slug, read, entry, stage) ==
    [impl |-> impl, op |-> op, arg |-> arg, slug |-> slug, read |-> read, entry |-> entry,
     stage |-> stage, met |-> {}]

InFlight == {id \in DOMAIN calls : calls[id].stage # "done"}

\* request id starts while the requests of InFlight are under way
Begin(id, call) ==
    Put([j \in DOMAIN calls |-> IF j \in InFlight THEN [calls[j] EXCEPT !.met = @ \cup {id}]
                                ELSE calls[j]],
        id, [call EXCEPT !.met = InFlight])

At(id, impl, op, stage) ==
    /\ id \in DOMAIN calls
    /\ calls[id].impl = impl
    /\ calls[id].op = op
    /\ calls[id].stage = stage

\* import of the router up to its getConfig: the files are written, the
\* registry is read
TrpcImportRead(id) ==
    /\ app = "router"
    /\ now <= MaxClock
    /\ id \notin DOMAIN calls
    /\ \E parsed \in {parseGitHubUrl(RaceUrl)}, gh \in RaceUpstream :
       \E manifest \in {resolveManifest(gh, parsed.owner, parsed.repo, parsed.branch,
                                        NoCustom)} :
       \E installScript \in {generateInstallScript(manifest)} :
          /\ customJson' = Put(customJson, manifest.slug, manifest)
          /\ customCt' = Chmod(Put(customCt, manifest.slug,
                                   ScriptFile(customCt, manifest.slug, installScript, Mode644)),
                               manifest.slug, Mode755)
          /\ mainJson' = Put(mainJson, manifest.slug, manifest)
          /\ calls' = Begin(id, Call("trpc", "import", "", manifest.slug, getConfig(configFile),
                                     importEntry(manifest, parsed.owner, parsed.repo,
                                                 parsed.branch, now),
                                     "read"))
    /\ UNCHANGED <<configFile, dashFiles, app, now, last, removed>>

\* its saveConfig, and its return
TrpcImportWrite(id) ==
    /\ At(id, "trpc", "import", "read")
    /\ now <= MaxClock
    /\ configFile' = saveConfig(configFile,
                                ConfigDoc(upsert(calls[id].read.imports, calls[id].entry),
                                          calls[id].entry.imported_at),
                                StepRegistry, NoFault)
    /\ calls' = [calls EXCEPT ![id].stage = "done"]
    /\ last' = Result("trpc", "import", "", TRUE, "", calls[id].slug, calls[id].entry.branch,
                      NoFaultIdx)
    /\ now' = now + 1
    /\ removed' = removed \ {calls[id].slug}
    /\ UNCHANGED <<customJson, customCt, mainJson, dashFiles, app>>

\* update of the router up to the record it finds in the registry it read
TrpcUpdateRead(id, slug) ==
    /\ app = "router"
    /\ now <= MaxClock
    /\ id \notin DOMAIN calls
    /\ \E config \in {getConfig(configFile)} :
          /\ findIndex(config.imports, slug) # 0
          /\ calls' = Begin(id, Call("trpc", "update", slug, slug, config,
                                     config.imports[findIndex(config.imports, slug)], "read"))
    /\ UNCHANGED <<trpcFiles, dashFiles, app, now, last, removed>>

\* the rest of it: the files are written, then the registry it read is
\* saved with the new date of its record
TrpcUpdateWrite(id) ==
    /\ At(id, "trpc", "update", "read")
    /\ now <= MaxClock
    /\ \E parsed \in {parseGitHubUrl(calls[id].entry.source \o "/tree/"
                                      \o calls[id].entry.branch)},
          gh \in RaceUpstream :
       \E manifest \in {resolveManifest(gh, parsed.owner, parsed.repo, parsed.branch,
                                        NoCustom)} :
       \E installScript \in {generateInstallScript(manifest)} :
          /\ customJson' = Put(customJson, manifest.slug, manifest)
          /\ customCt' = Put(customCt, manifest.slug,
                             ScriptFile(customCt, manifest.slug, installScript, Mode644))
          /\ mainJson' = Put(mainJson, manifest.slug, manifest)
          /\ last' = Result("trpc", "update", calls[id].arg, TRUE, "", manifest.slug,
                            parsed.branch, NoFaultIdx)
    /\ configFile' = saveConfig(configFile,
                                [calls[id].read EXCEPT
                                    !.imports[findIndex(calls[id].read.imports, calls[id].arg)]
                                        .imported_at = now],
                                StepRegistry, NoFault)
    /\ calls' = [calls EXCEPT ![id].stage = "done"]
    /\ now' = now + 1
    /\ UNCHANGED <<dashFiles, app, removed>>

\* POST /api/import/github up to the loadImports of its addImport
DashImportLoad(id) ==
    /\ app = "dashboard"
    /\ now <= MaxClock
    /\ id \notin DOMAIN calls
    /\ \E parsed \in {dashboardParseGitHubUrl(RaceUrl)}, gh \in RaceUpstream,
          bodyName \in BodyNames :
       \E name \in {OrStr(bodyName, OrStr(gh.name, parsed.repo))} :
       \E slug \in {slugify(name)}, projectType \in {dashboardProjectType(gh, parsed.branch)} :
          /\ jsonDir' = Put(jsonDir, slug,
                            dashboardManifest(name, slug, 14, projectType, gh,
                                              "Imported from GitHub: "))
          /\ installDir' = Put(installDir, slug,
                               ScriptFile(installDir, slug,
                                          dashboardGenerateInstallScript(
                                              name, slug, projectType.type, clone_url(gh),
                                              projectType.port),
                                          Mode755))
          /\ calls' = Begin(id, Call("dash", "import", "", slug, loadImports(importsFile),
                                     importRecordOf(slug, name, gh, now), "read"))
    /\ UNCHANGED <<trpcFiles, importsFile, credentialsFile, app, now, last, removed>>

\* POST /api/imports/[slug]/update up to its getImportBySlug
DashUpdateGet(id, slug) ==
    /\ app = "dashboard"
    /\ now <= MaxClock
    /\ id \notin DOMAIN calls
    /\ \E got \in {getImportBySlug(importsFile, slug)} :
          /\ got.found
          /\ sourceMatch(got.record.source).ok
          /\ calls' = Begin(id, Call("dash", "update", slug, slug, <<>>, got.record, "got"))
    /\ UNCHANGED <<trpcFiles, dashFiles, app, now, last, removed>>

\* from there to the loadImports of its addImport
DashUpdateLoad(id) ==
    /\ At(id, "dash", "update", "got")
    /\ now <= MaxClock
    /\ \E gh \in RaceUpstream, importRecord \in {calls[id].entry} :
       \E projectType \in {dashboardProjectType(gh, NoRef)} :
          /\ jsonDir' = Put(jsonDir, calls[id].slug,
                            dashboardManifest(importRecord.name, calls[id].slug, 14,
                                              projectType, gh, "Updated from GitHub: "))
          /\ installDir' = Put(installDir, calls[id].slug,
                               ScriptFile(installDir, calls[id].slug,
                                          dashboardGenerateInstallScript(
                                              importRecord.name, calls[id].slug,
                                              projectType.type, clone_url(gh),
                                              projectType.port),
                                          Mode755))
          /\ calls' = [calls EXCEPT ![id].stage = "read",
                                    ![id].read = loadImports(importsFile),
                                    ![id].entry = [importRecord EXCEPT !.importedAt = now]]
    /\ UNCHANGED <<trpcFiles, importsFile, credentialsFile, app, now, last, removed>>

\* the saveImports of addImport, and the return of the route that called it
DashSave(id) ==
    /\ id \in DOMAIN calls
    /\ calls[id].impl = "dash"
    /\ calls[id].stage = "read"
    /\ now <= MaxClock
    /\ importsFile' = saveImports(importsFile, upsert(calls[id].read, calls[id].entry),
                                  StepRegistry, NoFault)
    /\ calls' = [calls EXCEPT ![id].stage = "done"]
    /\ last' = Result("dash", calls[id].op, calls[id].arg, TRUE, "", calls[id].slug, NoRef,
                      NoFaultIdx)
    /\ now' = now + 1
    /\ UNCHANGED <<trpcFiles, jsonDir, installDir, credentialsFile, app, removed>>

TrpcImportReadStep == \E id \in CallIds : TrpcImportRead(id)
TrpcImportWriteStep == \E id \in CallIds : TrpcImportWrite(id)
TrpcUpdateReadStep == \E id \in CallIds, slug \in SlugInputs : TrpcUpdateRead(id, slug)
TrpcUpdateWriteStep == \E id \in CallIds : TrpcUpdateWrite(id)
DashImportLoadStep == \E id \in CallIds : DashImportLoad(id)
DashUpdateGetStep == \E id \in CallIds, slug \in SlugInputs : DashUpdateGet(id, slug)
DashUpdateLoadStep == \E id \in CallIds : DashUpdateLoad(id)
DashSaveStep == \E id \in CallIds : DashSave(id)

RaceNext ==
    \/ TrpcImportReadStep
    \/ TrpcImportWriteStep
    \/ TrpcUpdateReadStep
    \/ TrpcUpdateWriteStep
    \/ TrpcRemoveStep
    \/ DashImportLoadStep
    \/ DashUpdateGetStep
    \/ DashUpdateLoadStep
    \/ DashSaveStep
    \/ DashDeleteStep

RaceSpec == Init /\ [][RaceNext]_vars

-----------------------------------------------------------------------------
(* What the requests are checked against.                                  *)

\* the registry, manifests and scripts of the installation that serves
registryOf == IF app = "router" THEN getConfig(configFile).imports ELSE loadImports(importsFile)
manifestsOf == IF app = "router" THEN customJson ELSE jsonDir
scriptsOf == IF app = "router" THEN customCt ELSE installDir

\* the file of that name, if there is one
Entry(dir, name) == IF name \in DOMAIN dir THEN <<dir[name]>> ELSE <<>>

\* the records of that slug, and the others
recordsOf(imports, slug) == SelectSeq(imports, LAMBDA r : r.slug = slug)
recordsBut(imports, slug) == SelectSeq(imports, LAMBDA r : r.slug # slug)

NoTwoAlike(imports) ==
    \A i, j \in 1..Len(imports) : i # j => imports[i].slug # imports[j].slug

(* C1: whatever requests were served, one after the other, no two records  *)
(* of a registry have the same slug.                                       *)
SlugsUnique == NoTwoAlike(configFile.imports) /\ NoTwoAlike(importsFile.imports)

\* a registry of two records whose first record is the younger: it was
\* imported again after the second one was added
SlugImportedAgain ==
    /\ Len(configFile.imports) = 2
    /\ configFile.imports[1].imported_at > configFile.imports[2].imported_at

(* C2: an import of the router or the dashboard that fails, at whatever    *)
(* step, leaves the registry document as it was before the request.        *)
FailedImportKeepsRegistry ==
    [][(last'.op = "import" /\ last'.impl \in {"trpc", "dash"} /\ ~last'.ok)
          => (configFile' = configFile /\ importsFile' = importsFile)]_vars

\* manifest, script and record of a slug are all there
AllPresent(manifests, scripts, imports, slug) ==
    /\ slug \in DOMAIN manifests
    /\ manifests[slug] # CorruptJson
    /\ slug \in DOMAIN scripts
    /\ scripts[slug].text # ""
    /\ recordsOf(imports, slug) # <<>>

(* C3: when an import of the router or the dashboard has returned, the     *)
(* manifest, the script and the record of the slug it worked on are all    *)
(* there, or all three are as they were before the request.                *)
ImportIsAllOrNothing ==
    [][(last'.op = "import" /\ last'.impl \in {"trpc", "dash"} /\ last'.slug # "")
          => \/ AllPresent(manifestsOf', scriptsOf', registryOf', last'.slug)
             \/ /\ Entry(manifestsOf', last'.slug) = Entry(manifestsOf, last'.slug)
                /\ Entry(scriptsOf', last'.slug) = Entry(scriptsOf, last'.slug)
                /\ recordsOf(registryOf', last'.slug) = recordsOf(registryOf, last'.slug)]_vars

\* after is before with the record of slug replaced where it stood, or with
\* one record of slug appended when there was none
Upserted(before, after, slug) ==
    IF recordsOf(before, slug) # <<>>
    THEN /\ Len(after) = Len(before)
         /\ \A i \in 1..Len(before) :
               /\ after[i].slug = before[i].slug
               /\ before[i].slug # slug => after[i] = before[i]
    ELSE /\ Len(after) = Len(before) + 1
         /\ after[Len(after)].slug = slug
         /\ SubSeq(after, 1, Len(before)) = before

(* C4: a successful import of a slug the registry holds replaces its       *)
(* record where it stands; a successful import of a slug the registry does *)
(* not hold appends one record; every other record stays as it was.        *)
SuccessfulImportUpserts ==
    [][(last'.op = "import" /\ last'.ok) => Upserted(registryOf, registryOf', last'.slug)]_vars

(* C5: after a successful import of the router that returned slug s, get(s) *)
(* returns a manifest of slug s; after a successful remove(s), get(s) is   *)
(* not found for as long as s is not imported again.                       *)
GetFollowsImportAndRemove ==
    /\ (last.impl = "trpc" /\ last.op = "import" /\ last.ok)
          => /\ getManifest(customJson, last.slug).ok
             /\ getManifest(customJson, last.slug).manifest.slug = last.slug
    /\ \A s \in removed : ~getManifest(customJson, s).ok

(* C6: a successful update(s) lists the repository at the branch the       *)
(* record of s stores, writes under slug s, and leaves the slugs of the    *)
(* registry and the names of the manifest files as they were.              *)
UpdateKeepsBranchAndSlug ==
    [][(last'.op = "update" /\ last'.impl \in {"trpc", "dash"} /\ last'.ok)
          => /\ \A i \in 1..Len(registryOf) :
                   registryOf[i].slug = last'.arg
                      => /\ "branch" \in DOMAIN registryOf[i]
                         /\ last'.ref = registryOf[i].branch
             /\ last'.slug = last'.arg
             /\ slugsOf(registryOf') = slugsOf(registryOf)
             /\ DOMAIN manifestsOf' = DOMAIN manifestsOf]_vars

(* C7: update(s) for a slug s the registry has no record of fails with a   *)
(* not-found error and writes no manifest, no script and no registry.      *)
UpdateOfUnknownSlugNotFound ==
    [][(last'.op = "update" /\ recordsOf(registryOf, last'.arg) = <<>>)
          => /\ ~last'.ok
             /\ last'.err \in {"NOT_FOUND", "404"}
             /\ UNCHANGED <<trpcFiles, dashFiles>>]_vars

(* C8: preview leaves every manifest file, every script file and the       *)
(* registry as they were, whatever the url and whether it succeeds or not. *)
PreviewWritesNothing ==
    [][last'.op = "preview" => UNCHANGED <<trpcFiles, dashFiles>>]_vars

\* a preview was served, successfully or not, by an installation that holds files
PreviewedInUse == last.op = "preview" /\ customJson # EmptyDir /\ configFile.st = "ok"

(* C9, as the code has it: the script text preview returns is the first    *)
(* 500 characters of the generated script followed by "...", 503           *)
(* characters at most.                                                     *)
PreviewIsCutAndMarked ==
    (last.op = "preview" /\ last.ok)
       => /\ last.text = Slice(generateInstallScript(last.manifest), PreviewLen) \o "..."
          /\ Len(last.text) <= PreviewLen + 3

\* a preview of a script that is longer than the cut
PreviewOfLongScript ==
    /\ last.op = "preview"
    /\ last.ok
    /\ Len(generateInstallScript(last.manifest)) > PreviewLen

(* C9, as stated: the script text preview returns is at most 500           *)
(* characters long and a prefix of the generated script.                   *)
PreviewIsShortPrefix ==
    (last.op = "preview" /\ last.ok)
       => /\ Len(last.text) <= PreviewLen
          /\ IsPrefix(last.text, generateInstallScript(last.manifest))

(* C10: remove(s) of a recorded slug succeeds when no write is refused,    *)
(* whichever of its files are missing; after a successful remove the       *)
(* registry holds the records it held, in their order, but none of s; a    *)
(* remove whose registry write is refused fails.                           *)
RemoveDropsTheRecord ==
    [][last'.op = "remove"
          => /\ (recordsOf(registryOf, last'.arg) # <<>> /\ last'.step = NoFaultIdx) => last'.ok
             /\ last'.ok => registryOf' = recordsBut(registryOf, last'.arg)
             /\ last'.step = StepRegistry => ~last'.ok]_vars

\* a successful remove that found files missing and left other records
RemovedWithFilesMissing ==
    /\ last.op = "remove"
    /\ last.ok
    /\ last.absent
    /\ registryOf # <<>>

\* the manifest file of a record can be read and parsed
Readable(imp) == imp.slug \in DOMAIN customJson /\ customJson[imp.slug].valid

(* C11: a list of the router returns one entry for each record of the      *)
(* registry, in the order of the registry; the entry of a record whose     *)
(* manifest file is missing or does not parse is the record itself, and    *)
(* the call succeeds whatever the manifest files hold.                     *)
ListReturnsEveryRecord ==
    (last.impl = "trpc" /\ last.op = "list") =>
        LET imports == getConfig(configFile).imports
        IN  /\ last.ok
            /\ Len(last.entries) = Len(imports)
            /\ \A i \in 1..Len(imports) :
                  /\ last.entries[i].slug = imports[i].slug
                  /\ \A f \in DOMAIN imports[i] : last.entries[i][f] = imports[i][f]
                  /\ ~Readable(imports[i]) => last.entries[i] = imports[i]

\* a list of a registry of two records, of which one has a manifest that
\* does not parse and the other a manifest that does
ListedWithBadManifest ==
    /\ last.impl = "trpc" /\ last.op = "list"
    /\ Len(last.entries) = 2
    /\ \E i, j \in 1..2 :
          /\ ~Readable(configFile.imports[i])
          /\ Readable(configFile.imports[j])
          /\ last.entries[i] = configFile.imports[i]
          /\ "name" \in DOMAIN last.entries[j]

\* a parser was applied to the URL drawn
Parsed == last.op = "url" /\ last.impl # ""

\* the repo name of the URL drawn holds no .git at all
PlainRepo == last.suffix = "" /\ IndexOfFrom(last.repo, ".git", 1) = 0

(* C12: for a URL https://github.com/<owner>/<repo>, with or without       *)
(* /tree/<branch>, each of the three parsers returns the owner, the repo   *)
(* and the branch of the URL, where the branch is main when the URL names  *)
(* none and may hold "/".                                                  *)
ParserReturnsOwnerRepoBranch ==
    (Parsed /\ PlainRepo) =>
        /\ last.out.ok
        /\ last.out.owner = last.owner
        /\ last.out.repo = last.repo
        /\ last.out.branch = (IF last.branch = "" THEN "main" ELSE last.branch)

(* C13: each of the three parsers removes .git from the end of the repo    *)
(* name and changes the name in no other way.                              *)
GitSuffixRemovedOnly ==
    Parsed => (last.out.ok /\ last.out.repo = last.repo)

\* an implementation resolved the manifest of the repository drawn
Resolved == last.op = "resolve" /\ last.impl # ""

\* the first location, if any, for which the probes satisfy test
FirstLocation(probes, test(_)) ==
    IF \E i \in 1..Len(probes) : test(probes[i])
    THEN CHOOSE i \in 1..Len(probes) : test(probes[i]) /\ \A j \in 1..(i - 1) : ~test(probes[j])
    ELSE 0

\* the listing of the location names a file and its download succeeds
Fetchable(probe) == probe.kind \in {"found", "badjson"}

(* C14: the router and the CLI use the file of the first of the four       *)
(* locations, in their fixed order, that can be fetched, whatever later    *)
(* locations hold, and generate a manifest only when none can be fetched.  *)
FirstFetchableManifestUsed ==
    (Resolved /\ last.custom = NoCustom) =>
        LET first == FirstLocation(last.gh.probes, Fetchable)
        IN  IF first = 0
            THEN ~last.out.found /\ last.out.manifest.valid
            ELSE last.out.found /\ last.out.manifest = last.gh.probes[first].manifest

\* the location holds a manifest: listing, download and parse succeed
Holds(probe) == probe.kind = "found"
NoJson(probe) == probe.kind = "badjson"

(* C15: when the repository itself can be read and no location holds a     *)
(* file that is not JSON, the router arrives at a manifest whatever        *)
(* listings and downloads fail: the manifest of the first location that    *)
(* holds one, or a manifest generated from the repository when none does.  *)
ProbeFailuresAreSkipped ==
    (Resolved /\ last.impl = "trpc" /\ last.custom = NoCustom
       /\ FirstLocation(last.gh.probes, NoJson) = 0) =>
        LET first == FirstLocation(last.gh.probes, Holds)
        IN  /\ last.out.ok
            /\ last.out.manifest.valid
            /\ IF first = 0
               THEN /\ ~last.out.found 
                    /\ last.out.manifest.name = "a"
                    /\ last.out.manifest.source.owner = "o"
               ELSE last.out.manifest = last.gh.probes[first].manifest

\* the router skipped a listing that failed and a download that failed and
\* found the manifest of the fourth location
ResolvedAfterFailures ==
    /\ Resolved /\ last.impl = "trpc"
    /\ last.gh.probes[1].kind = "error"
    /\ last.gh.probes[2].kind = "nodownload"
    /\ last.gh.probes[3].kind = "missing"
    /\ last.out.manifest = ManifestAt(4)

\* what the router arrives at when the caller supplies nothing
Unsupplied == resolveManifest(last.gh, "o", "a", "main", NoCustom)

\* a || b of the fields of customResources that were supplied
Supplied(custom, base) ==
    /\ custom.cpu # 0 => base.cpu = custom.cpu
    /\ custom.ram # 0 => base.ram = custom.ram
    /\ custom.hdd # 0 => base.hdd = custom.hdd
    /\ custom.os # "" => base.os = custom.os
    /\ custom.version # "" => base.version = custom.version

Kept(custom, base, other) ==
    /\ custom.cpu = 0 => base.cpu = other.cpu
    /\ custom.ram = 0 => base.ram = other.ram
    /\ custom.hdd = 0 => base.hdd = other.hdd
    /\ custom.os = "" => base.os = other.os
    /\ custom.version = "" => base.version = other.version

(* C19: in the manifest the router arrives at, fetched or generated, the   *)
(* name, the description and every resource limit the caller supplied     *)
(* are the caller's, and every other field is what it is when the caller   *)
(* supplies nothing.                                                       *)
SuppliedFieldsTakePrecedence ==
    (Resolved /\ last.impl = "trpc") =>
        LET manifest == last.out.manifest
            custom == last.custom
        IN  /\ manifest.name = (IF custom.name # "" THEN custom.name ELSE Unsupplied.name)
            /\ manifest.description = (IF custom.description # "" THEN custom.description
                                       ELSE Unsupplied.description)
            /\ Supplied(custom.resources, manifest.resources)
            /\ Kept(custom.resources, manifest.resources, Unsupplied.resources)
            /\ manifest.slug = Unsupplied.slug
            /\ manifest.source = Unsupplied.source
            /\ manifest.interface_port = Unsupplied.interface_port

\* an implementation was applied to the listing drawn
Detected == last.op = "detect" /\ last.impl # ""

\* the type of the first marker found, in the order nodejs, python, docker,
\* golang, rust
FirstMarker(files) ==
    IF "package.json" \in files THEN "nodejs"
    ELSE IF files \cap {"requirements.txt", "pyproject.toml"} # {} THEN "python"
    ELSE IF files \cap {"Dockerfile", "docker-compose.yml"} # {} THEN "docker"
    ELSE IF "go.mod" \in files THEN "golang"
    ELSE IF "Cargo.toml" \in files THEN "rust"
    ELSE "generic"

(* C16: whatever marker files the root listing holds, the router, the      *)
(* dashboard library and the CLI detect the type of the first marker in    *)
(* the order nodejs, python, docker, golang, rust, and generic when the    *)
(* listing holds no marker.                                                *)
FirstMarkerDecides == Detected => last.out.type = FirstMarker(last.files)

\* cpu, ram and hdd of the decision table
DecisionTable(projectType) ==
    CASE projectType = "nodejs" -> <<1, 1024, 8>>
      [] projectType = "python" -> <<1, 1024, 4>>
      [] projectType = "docker" -> <<2, 2048, 16>>
      [] projectType = "golang" -> <<1, 1024, 4>>
      [] projectType = "rust" -> <<2, 2048, 8>>
      [] OTHER -> <<1, 512, 4>>

(* C17: without overrides, cpu, ram and hdd of the manifest an             *)
(* implementation generates are the row of the decision table for the      *)
(* project type that implementation detected.                              *)
ResourcesFollowDecisionTable ==
    Detected =>
        <<last.out.resources.cpu, last.out.resources.ram, last.out.resources.hdd>>
            = DecisionTable(last.out.type)

(* C20: the install script of the router and of the dashboard library      *)
(* defines a service unit with Restart=always and RestartSec=10 when the   *)
(* project type is nodejs, python or golang, and defines no service unit   *)
(* when it is docker.                                                      *)
ServiceUnitFollowsProjectType ==
    (Detected /\ last.impl \in {"trpc", "dash"}) =>
        /\ last.out.type \in {"nodejs", "python", "golang"} =>
              /\ Contains(last.out.script, "[Service]")
              /\ Contains(last.out.script, "Restart=always\n")
              /\ Contains(last.out.script, "RestartSec=10\n")
        /\ last.out.type = "docker" => ~Contains(last.out.script, "[Service]")

\* an implementation made the slug of the name drawn, and the slug of that
Slugged == last.op = "slug" /\ last.impl # ""

(* C18: making the slug of a slug gives the same slug again, for names of  *)
(* any length, and a slug holds no character other than a-z, 0-9 and "-".  *)
SlugifyIsIdempotent ==
    Slugged =>
        /\ last.out.twice = last.out.once
        /\ \A i \in 1..Len(last.out.once) :
              IsLowerAlnum(CharAt(last.out.once, i)) \/ CharAt(last.out.once, i) = "-"

\* the script directory of the implementation that served the last request
scriptsOfLast == IF last.impl = "dash" THEN installDir ELSE customCt

\* a script file that begins with a shebang and has mode 0755
Executable(script) == IsPrefix("#!", script.text) /\ script.mode = Mode755

(* C21: after an import or an update that succeeded, the script file of    *)
(* the slug it wrote begins with a shebang line and has mode 0755, also    *)
(* when it was the update that created the file.                           *)
WrittenScriptIsExecutable ==
    (last.ok /\ last.op \in {"import", "update"} /\ last.slug \in DOMAIN scriptsOfLast) =>
        Executable(scriptsOfLast[last.slug])

\* the failure a result names
ErrorKind(result) ==
    IF result.err \in {"NOT_FOUND", "404"} THEN "RepositoryNotFound"
    ELSE IF result.err \in {"UNAUTHORIZED", "401"} THEN "AuthenticationRequired"
    ELSE "Other"

(* C22: an import whose repository-metadata call is answered with a status *)
(* that is not 2xx fails and writes no file; it fails with                 *)
(* AuthenticationRequired when the status is 401 or 403 and the call       *)
(* carried no stored credential, and with RepositoryNotFound otherwise.    *)
RefusedMetadataCallNamesCause ==
    [][(last'.op = "import" /\ last'.status # 0) =>
          /\ ~last'.ok
          /\ ErrorKind(last') = (IF last'.status \in {401, 403} /\ ~last'.auth
                                 THEN "AuthenticationRequired" ELSE "RepositoryNotFound")
          /\ UNCHANGED <<trpcFiles, dashFiles>>]_vars

\* the credential matches the URL by its provider or by its baseUrl
MatchesUrl(c, url) ==
    \/ c.provider = "github" /\ Contains(url, "github.com")
    \/ c.provider = "gitlab" /\ Contains(url, "gitlab.com")
    \/ c.provider = "bitbucket" /\ Contains(url, "bitbucket.org")
    \/ c.baseUrl # "" /\ Contains(url, c.baseUrl)

(* C24: getCredentialForUrl returns the first credential of the stored     *)
(* array that matches the URL by provider or by baseUrl, and null only     *)
(* when no stored credential matches.                                      *)
FirstMatchingCredentialReturned ==
    last.op = "lookup" =>
        last.id = find(last.before, LAMBDA c : MatchesUrl(c, last.body))

\* the credential of that id in a store
CredentialOf(credentials, id) == credentials[find(credentials, LAMBDA c : c.id = id)]

(* C27: a PUT that found its credential and whose body carries no token    *)
(* leaves the stored token as it was, and no PUT changes id or createdAt.  *)
PutKeepsWhatIsNotProvided ==
    (last.op = "update" /\ last.response.status = 200) =>
        LET old == CredentialOf(last.before, last.id)
            new == CredentialOf(loadCredentials(credentialsFile), last.id)
        IN  /\ last.body.token = "" => new.token = old.token
            /\ new.id = old.id
            /\ new.createdAt = old.createdAt

(* C29: the response of list, get, create and update is the same for two   *)
(* stores that differ only in the values of their tokens that are not      *)
(* empty.                                                                  *)
ResponsesHideTokens ==
    last.op \in {"list", "get", "create", "update"} => last.response = last.twin

\* a credential with a token was listed, fetched or updated
TokenHolderAnswered ==
    /\ last.op \in {"list", "get", "update"}
    /\ last.response.status = 200
    /\ Len(last.response.data) > 0
    /\ \E i \in 1..Len(last.before) : last.before[i].token # ""
    /\ \E i \in 1..Len(last.response.data) : last.response.data[i].hasToken

\* the number a decimal numeral stands for
RECURSIVE NumberOf(_)
NumberOf(s) ==
    IF s = "" THEN 0
    ELSE NumberOf(SubSeq(s, 1, Len(s) - 1)) * 10
           + (CHOOSE d \in 0..9 : CharAt(DigitChars, d + 1) = CharAt(s, Len(s)))

\* the last run of the CLI was an import that saved a manifest
CliSaved ==
    /\ last.impl = "cli" /\ last.op = "import"
    /\ last.slug # "" /\ last.err # "UNBOUND"

(* C25: import -c <id> <url> with a valid id imports the repository at     *)
(* <url> and saves a manifest whose categories are [<id>]; import <url>    *)
(* saves one whose categories are [14].                                    *)
CategoryOptionSetsCategories ==
    /\ \A id \in CATEGORIES :
          (last.impl = "cli" /\ last.arg = CommandLine(<<"import", "-c", id, CliUrl>>)) =>
              /\ last.err # "INVALID_URL"
              /\ CliSaved => customJson[last.slug].categories = <<NumberOf(id)>>
    /\ (CliSaved /\ last.arg = CommandLine(<<"import", CliUrl>>)) =>
           customJson[last.slug].categories = <<14>>

(* C26: an import run with --no-rebuild leaves the main json directory as  *)
(* it was.                                                                 *)
NoRebuildSkipsRebuild ==
    [][(last'.impl = "cli" /\ last'.op = "import" /\ Contains(last'.arg, "--no-rebuild")) =>
           mainJson' = mainJson]_vars

(* C30: update-all calls update_import for every slug of the registry, in  *)
(* the registry's order, whatever the earlier calls came to.               *)
UpdateAllAttemptsEverySlug ==
    [][(last'.impl = "cli" /\ last'.op = "update-all") =>
           last'.entries = slugList(configFile)]_vars

\* the records of the registry of the installation
Registry == IF app = "router" THEN getConfig(configFile).imports ELSE loadImports(importsFile)

\* request id returns in this step
Returns(id, op) ==
    /\ id \in DOMAIN calls
    /\ calls[id].op = op
    /\ calls[id].stage = "read"
    /\ calls'[id].stage = "done"

(* C23: when an import returns with success, and an import of another slug *)
(* that ran alongside it has returned with success and its record stands   *)
(* in the registry, the registry holds the records of both slugs.          *)
ConcurrentImportsBothRecorded ==
    [][\A id \in CallIds, other \in CallIds :
          (/\ Returns(id, "import")
           /\ other \in calls[id].met
           /\ calls[other].op = "import" /\ calls[other].stage = "done"
           /\ calls[other].slug # calls[id].slug
           /\ calls[other].slug \in slugsOf(Registry)) =>
              {calls[id].slug, calls[other].slug} \subseteq slugsOf(Registry')]_vars

(* C28: when an update returns and the request that returned before it was *)
(* a successful remove of s, the registry holds no record of s.            *)
UpdateKeepsRemovedRecordAbsent ==
    [][\A id \in CallIds :
          (Returns(id, "update") /\ last.op = "remove" /\ last.ok) =>
              last.arg \notin slugsOf(Registry')]_vars
=============================================================================
